------------------------------ MODULE ProfileKeys ------------------------------
(***************************************************************************)
(* A saved model profile: its destination, its model, its protected key, the *)
(* revision of that key and the receipt of the last probe that answered.     *)
(*                                                                         *)
(* The web handlers save, delete and probe the profile; the native service   *)
(* freezes its public part into each accepted run and looks the key up again *)
(* when the run starts.  Nothing holds the profile still between the two     *)
(* reads of a probe, during its request, or between a run's acceptance and   *)
(* its start.                                                               *)
(***************************************************************************)
EXTENDS Naturals, FiniteSets

CONSTANTS
    Dests, Models,
    Probes, Runs,
    Requests,     \* what a probe names: "id" the profile only, "form" the whole draft
    MaxRevisions, \* bound on keys entered and forgotten
    MaxEdits      \* bound on edits of the file by hand and on crashes

VARIABLES
    file,    \* the profile as the settings file has it
    pending, \* the profile that a handler inside the store's lock will write, and for whom
    temp,    \* the temporary file of an unfinished write
    broken,  \* the store has failed: nothing new is admitted
    probe, run,
    clients, \* the native service's cached clients
    proved,  \* the contracts that answered a probe
    last, edits

vars == <<file, pending, temp, broken, probe, run, clients, proved, last, edits>>
disk == <<file, pending, temp>>

Contracts == [dest : Dests, model : Models, revision : 0..MaxRevisions]
None == [dest |-> "none", model |-> "none", revision |-> 0]
NoKey == [id |-> 0, home |-> "none"]          \* home: the destination it was entered for
Contract(p) == [dest |-> p.dest, model |-> p.model, revision |-> p.revision]
Gone == [dest |-> "none", model |-> "none", revision |-> 0, key |-> NoKey,
         binding |-> "none", receipt |-> None]
Nothing == [for |-> "nobody", profile |-> Gone]

Quiet(at) == [at |-> at, saved |-> None, named |-> None, used |-> None, key |-> NoKey]

Start(d, m) == [dest |-> d, model |-> m, revision |-> 1, key |-> [id |-> 1, home |-> d],
                binding |-> d, receipt |-> None]

Init ==
    /\ \E d \in Dests, m \in Models : file = Start(d, m)
    /\ pending = Nothing /\ temp = FALSE /\ broken = FALSE
    /\ probe = [p \in Probes |-> Quiet("idle")]
    /\ run = [r \in Runs |-> [at |-> "idle", snapshot |-> None, key |-> NoKey]]
    /\ clients = {} /\ proved = {} /\ last = 1 /\ edits = 0

Keyed(p) == p.key # NoKey

\* _credential_matches: the key's binding, the saved destination and the requested one
Matches(p, dest) == p.binding = p.dest /\ p.binding = dest

Reentry(p) == Keyed(p) /\ ~Matches(p, p.dest)

\* _validation_receipt: the receipt is shown for exactly this contract
Valid(p) == p.receipt # None /\ p.receipt = Contract(p) /\ ~Reentry(p)

-----------------------------------------------------------------------------
(* The store: one writer at a time, a temporary file, a replacement *)

Free == pending = Nothing /\ ~broken /\ file # Gone
Write(profile, who) == pending' = [for |-> who, profile |-> profile]

\* without a new key the saved one is kept only for its own destination
Kept(profile) == Keyed(file) => Matches(file, profile.dest)

\* a receipt of another contract is dropped
WithReceipt(profile) == [profile EXCEPT !.receipt = IF Valid([profile EXCEPT !.receipt = file.receipt])
                                                    THEN file.receipt ELSE None]

Save(d, m, key) ==
    /\ Free
    /\ \/ /\ key = "keep" /\ UNCHANGED last
          /\ LET next == [file EXCEPT !.dest = d, !.model = m, !.binding = IF Keyed(file) THEN d ELSE @] IN
             Kept(next) /\ Write(WithReceipt(next), "editor")
       \/ /\ key = "enter" /\ last < MaxRevisions /\ last' = last + 1
          /\ Write(WithReceipt([file EXCEPT !.dest = d, !.model = m, !.revision = last', !.binding = d,
                                            !.key = [id |-> last', home |-> d]]), "editor")
       \/ /\ key = "forget" /\ last < MaxRevisions /\ last' = last + 1
          /\ Write(WithReceipt([file EXCEPT !.dest = d, !.model = m, !.revision = last', !.binding = "none",
                                            !.key = NoKey]), "editor")
    /\ UNCHANGED <<file, temp, broken, probe, run, clients, proved, edits>>

\* another profile remains and becomes the active one
Delete ==
    /\ Free /\ pending' = [for |-> "editor", profile |-> Gone]
    /\ UNCHANGED <<file, temp, broken, probe, run, clients, proved, last, edits>>

Finish(who) == [p \in Probes |-> IF who = p THEN Quiet("ended") ELSE probe[p]]

Replace ==
    /\ pending # Nothing /\ ~broken /\ ~temp
    /\ file' = pending.profile /\ pending' = Nothing /\ probe' = Finish(pending.for)
    /\ UNCHANGED <<temp, broken, run, clients, proved, last, edits>>

\* an error leaves what was written of the temporary file and the profile as it was;
\* a temporary file that is there already refuses the exclusive open
WriteFails ==
    /\ pending # Nothing /\ ~broken
    /\ temp' \in {temp, TRUE} /\ broken' = TRUE
    /\ pending' = Nothing /\ probe' = Finish(pending.for)
    /\ UNCHANGED <<file, run, clients, proved, last, edits>>

\* base_url edited in the settings file; the key and its binding stay
EditFile(d) ==
    /\ edits < MaxEdits /\ edits' = edits + 1
    /\ pending = Nothing /\ file # Gone /\ d # file.dest /\ file' = [file EXCEPT !.dest = d]
    /\ UNCHANGED <<pending, temp, broken, probe, run, clients, proved, last>>

\* a temporary file that a crash left quarantines the next start
Crash ==
    /\ edits < MaxEdits /\ edits' = edits + 1
    /\ temp' \in {temp, pending # Nothing \/ temp}
    /\ broken' = temp' /\ pending' = Nothing /\ clients' = {}
    /\ probe' = [p \in Probes |-> IF probe[p].at = "idle" THEN probe[p] ELSE Quiet("ended")]
    /\ run' = [r \in Runs |-> IF run[r].at = "using" THEN [run[r] EXCEPT !.at = "accepted"] ELSE run[r]]
    /\ UNCHANGED <<file, proved, last>>

-----------------------------------------------------------------------------
(* Resolving the key *)

\* resolve_profile with these overrides: the contract that the request will be made under
Override(named) == IF named.dest = "none" THEN Contract(file) ELSE [named EXCEPT !.revision = file.revision]
Resolves(named, revision) ==
    /\ ~broken /\ file # Gone
    /\ (Keyed(file) \/ file.revision # 0) => revision = file.revision
    /\ Keyed(file) => Matches(file, Override(named).dest)

-----------------------------------------------------------------------------
(* A probe *)

Asking(p, named) == probe' = [probe EXCEPT ![p].at = "read", ![p].named = named,
    ![p].saved = IF /\ file # Gone /\ ~Reentry(file)
                    /\ named \in {None, Contract(file)} THEN Contract(file) ELSE None]

\* _saved_probe_profile: the first reading; only a saved and unchanged draft may earn a receipt
Ask(p) ==
    /\ probe[p].at = "idle" /\ ~broken
    /\ \/ "id" \in Requests /\ Asking(p, None)
       \/ "form" \in Requests /\ \E c \in Contracts : c.revision <= last /\ Asking(p, c)
    /\ UNCHANGED <<broken, run, clients, proved, last, edits>> /\ UNCHANGED disk

\* discover_models reads the saved profile, and its key only for the chosen destination
Discover(p, d) ==
    /\ probe[p].at = "idle" /\ ~broken /\ file # Gone
    /\ probe' = [probe EXCEPT ![p] = [Quiet("read") EXCEPT !.named = [Contract(file) EXCEPT !.dest = d]]]
    /\ UNCHANGED <<broken, run, clients, proved, last, edits>> /\ UNCHANGED disk

\* _provider: the second reading, with the first one's revision
Send(p) ==
    /\ probe[p].at = "read"
    /\ LET q == probe[p]
           revision == IF q.saved # None THEN q.saved.revision
                       ELSE IF q.named # None THEN q.named.revision ELSE file.revision IN
       IF Resolves(q.named, revision)
       THEN probe' = [probe EXCEPT ![p].at = "sent", ![p].used = Override(q.named), ![p].key = file.key]
       ELSE probe' = [probe EXCEPT ![p] = Quiet("ended")]
    /\ UNCHANGED <<broken, run, clients, proved, last, edits>> /\ UNCHANGED disk

Reply(p) ==
    /\ probe[p].at = "sent"
    /\ \/ /\ proved' = proved \cup {probe[p].used}
          /\ probe' = [probe EXCEPT ![p] = IF @.saved # None THEN [Quiet("proved") EXCEPT !.saved = probe[p].saved]
                                          ELSE Quiet("ended")]
       \/ proved' = proved /\ probe' = [probe EXCEPT ![p] = Quiet("ended")]
    /\ UNCHANGED <<broken, run, clients, last, edits>> /\ UNCHANGED disk

\* Fault: the key's revision is not compared.
UnchangedContract(saved) == file.dest = saved.dest /\ file.model = saved.model /\ ~Reentry(file)

\* the saved profile is still the one that the probe began with
Unchanged(saved) == Contract(file) = saved /\ ~Reentry(file)

\* save_validation_receipt
Publish(p) ==
    /\ probe[p].at = "proved" /\ pending = Nothing
    /\ IF ~broken /\ file # Gone /\ Unchanged(probe[p].saved)
       THEN /\ Write([file EXCEPT !.receipt = Contract(file)], p)
            /\ probe' = [probe EXCEPT ![p] = Quiet("writing")]
       ELSE pending' = pending /\ probe' = [probe EXCEPT ![p] = Quiet("ended")]
    /\ UNCHANGED <<file, temp, broken, run, clients, proved, last, edits>>

-----------------------------------------------------------------------------
(* A run of the native service *)

\* the public profile is frozen into the accepted run
Accept(r) ==
    /\ run[r].at = "idle" /\ ~broken /\ file # Gone
    /\ run' = [run EXCEPT ![r].at = "accepted", ![r].snapshot = Contract(file)]
    /\ UNCHANGED <<broken, probe, clients, proved, last, edits>> /\ UNCHANGED disk

\* a cached client is for one destination, model and revision of the key
SameClient(client, contract) == Contract(client) = contract

\* _provider: the run's snapshot is resolved before the cache is looked up
Begin(r) ==
    /\ run[r].at = "accepted" /\ ~broken
    /\ LET contract == run[r].snapshot
           found == {c \in clients : SameClient(c, contract)} IN
       IF ~Resolves(contract, contract.revision)
       THEN run' = [run EXCEPT ![r].at = "ended"] /\ clients' = clients
       ELSE \E c \in IF found # {} THEN found
                     ELSE {[dest |-> contract.dest, model |-> contract.model,
                            revision |-> contract.revision, key |-> file.key]} :
                /\ clients' = clients \cup {c}
                /\ run' = [run EXCEPT ![r].at = "using", ![r].key = c.key]
    /\ UNCHANGED <<broken, probe, proved, last, edits>> /\ UNCHANGED disk

\* the run ends, or stops for a decision and is continued later
Stop(r) ==
    /\ run[r].at = "using" /\ run' = [run EXCEPT ![r].at = "accepted", ![r].key = NoKey]
    /\ UNCHANGED <<broken, probe, clients, proved, last, edits>> /\ UNCHANGED disk

-----------------------------------------------------------------------------
Next ==
    \/ \E d \in Dests, m \in Models, k \in {"keep", "enter", "forget"} : Save(d, m, k)
    \/ Delete \/ Replace \/ WriteFails \/ Crash
    \/ \E d \in Dests : EditFile(d) \/ \E p \in Probes : Discover(p, d)
    \/ \E p \in Probes : Ask(p) \/ Send(p) \/ Reply(p) \/ Publish(p)
    \/ \E r \in Runs : Accept(r) \/ Begin(r) \/ Stop(r)

Spec == Init /\ [][Next]_vars

-----------------------------------------------------------------------------
(* A key is sent only where the user entered it for, whatever is saved, edited  *)
(* or probed meanwhile, and a run uses the key of the revision it was accepted   *)
(* with or none: credential_identity (settings.py:24), _provider                 *)
(* (service.py:798 "A replacement is not a replay grant").                       *)
Home(key, dest) == key = NoKey \/ key.home = dest
KeysStayHome ==
    /\ \A p \in Probes : probe[p].at = "sent" => Home(probe[p].key, probe[p].used.dest)
    /\ \A r \in Runs : run[r].at = "using" =>
        /\ Home(run[r].key, run[r].snapshot.dest)
        /\ run[r].key # NoKey => run[r].key.id = run[r].snapshot.revision

(* A receipt that the settings show was earned by a probe of that key at that    *)
(* destination, however the profile was edited during the probe.                 *)
KeyedReceiptsEarned == Valid(file) /\ Keyed(file) =>
    \E c \in proved : c.dest = file.dest /\ c.revision = file.revision

(* Both, as one statement about what a profile's key and receipt stand for.      *)
ProfileSound == KeysStayHome /\ KeyedReceiptsEarned

(* settings.py:472: "Publish success only if the SAME saved config survived      *)
(* original probe."  The contract of a receipt that is shown answered a probe.   *)
ReceiptsProbed == Valid(file) => Contract(file) \in proved

(***************************************************************************)
(* Why ProfileSound holds: a revision belongs to one entry or removal of a  *)
(* key, so it tells for which destination that key was entered, if any.     *)
(* issued is that knowledge; what the file, a handler, a probe, a run or a   *)
(* client has of a revision agrees with it however late it is used.         *)
(***************************************************************************)
\* A destination is not called "none", and the first profile has a revision.
ProfileNames == "none" \notin Dests /\ MaxRevisions \in Nat \ {0}

Keys == [id : 1..MaxRevisions, home : Dests] \cup {NoKey}
Saved == [dest : Dests, model : Models, revision : 1..MaxRevisions, key : Keys,
          binding : Dests \cup {"none"}, receipt : Contracts \cup {None}]

ProfileTypes ==
    /\ file \in Saved \cup {Gone} /\ pending.profile \in Saved \cup {Gone}
    /\ probe \in [Probes -> [at : {"idle", "read", "sent", "proved", "writing", "ended"},
                             saved : Contracts \cup {None}, named : Contracts \cup {None},
                             used : Contracts \cup {None}, key : Keys]]
    /\ run \in [Runs -> [at : {"idle", "accepted", "using", "ended"},
                         snapshot : Contracts \cup {None}, key : Keys]]
    /\ clients \subseteq [dest : Dests, model : Models, revision : 0..MaxRevisions, key : Keys]
    /\ proved \subseteq Contracts
    /\ last \in 1..MaxRevisions

\* A probe under this revision answered, at the destination of its key if there is one.
Earned(issued, c) ==
    \E u \in proved : u.revision = c.revision /\ (issued[c.revision] # "none" => u.dest = c.dest)

ProfileAgrees(issued, p) ==
    p # Gone =>
        /\ p.revision <= last
        /\ Keyed(p) <=> issued[p.revision] # "none"
        /\ Keyed(p) => /\ p.key = [id |-> p.revision, home |-> issued[p.revision]]
                       /\ p.binding = p.key.home
        /\ p.receipt # None => p.receipt.revision <= last /\ Earned(issued, p.receipt)

ProbeAgrees(issued, q) ==
    /\ q.saved # None => /\ q.saved.revision <= last
                         /\ issued[q.saved.revision] \in {"none", q.saved.dest}
    /\ q.at = "read" /\ q.saved # None => q.named \in {None, q.saved}
    /\ q.at = "sent" =>
          /\ q.used # None /\ q.used.revision <= last /\ Home(q.key, q.used.dest)
          /\ q.saved # None => /\ q.used.revision = q.saved.revision
                               /\ issued[q.used.revision] # "none" => q.used.dest = q.saved.dest
    /\ q.at = "proved" => q.saved # None /\ Earned(issued, q.saved)

\* What holds a key under a contract: a client, or a run with its snapshot.
HoldsItsKey(c, key) == Home(key, c.dest) /\ (key # NoKey => key.id = c.revision)

Agreed(issued) ==
    /\ ProfileAgrees(issued, file) /\ ProfileAgrees(issued, pending.profile)
    /\ \A p \in Probes : ProbeAgrees(issued, probe[p])

KeysHeld ==
    /\ \A c \in clients : HoldsItsKey(c, c.key)
    /\ \A r \in Runs :
          /\ run[r].at \in {"accepted", "using"} => run[r].snapshot # None
          /\ run[r].at = "using" => HoldsItsKey(run[r].snapshot, run[r].key)

ProfileInv ==
    /\ ProfileTypes /\ KeysHeld
    /\ \E issued \in [0..MaxRevisions -> Dests \cup {"none"}] : Agreed(issued)

=============================================================================
