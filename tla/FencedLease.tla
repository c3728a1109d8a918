----------------------------- MODULE FencedLease -----------------------------
(***************************************************************************)
(* The fenced leases of PostgreSqlWorkCoordinator.  A row of               *)
(* lcm.fenced_leases gives one process a resource for a time.  Every       *)
(* acquisition draws a new token from a database sequence, and a mutation  *)
(* made under the lease asserts the token in its own transaction, with the *)
(* row locked until it commits.                                            *)
(*                                                                         *)
(* The database clock is abstracted: a held lease may run out at any time, *)
(* and a renewal that succeeds only postpones that, so it changes nothing  *)
(* here.  What a process remembers of its lease is in `held`.              *)
(***************************************************************************)
EXTENDS Naturals

CONSTANTS
    Processes,    \* owner_machine_id and owner_process_id of the callers
    Resources,    \* project_id, resource_type and resource_key
    NoOwner       \* the owner of a row that does not exist

ASSUME LeaseAssumption == NoOwner \notin Processes

VARIABLES
    leases,       \* the row of each resource
    sequence,     \* the fencing-token sequence: the last token drawn
    held,         \* the token each process remembers of its lease, 0 for none
    fenced        \* history: the token of the last mutation committed under
                  \* the lease of each resource

leaseVars == <<leases, sequence, held, fenced>>

NoLease == [state |-> "absent", owner |-> NoOwner, token |-> 0]

LeaseTypeOK ==
    /\ leases \in [Resources -> [state : {"absent", "held", "expired", "released"},
                                 owner : Processes \cup {NoOwner}, token : Nat]]
    /\ sequence \in Nat
    /\ held \in [Processes -> [Resources -> Nat]]
    /\ fenced \in [Resources -> Nat]

LeaseInit ==
    /\ leases = [r \in Resources |-> NoLease]
    /\ sequence = 0
    /\ held = [p \in Processes |-> [r \in Resources |-> 0]]
    /\ fenced = [r \in Resources |-> 0]

-----------------------------------------------------------------------------
\* A row can be taken when there is none, or it is released or out of time.
Available(r) == leases[r].state # "held"

\* The row still belongs to p under the token p remembers.
Owned(p, r) == leases[r].owner = p /\ leases[r].token = held[p][r]

\* Fault: a lease that somebody holds is taken for one's own.
AnyHolder(p, r) == held[p][r] # 0 /\ leases[r].state = "held"

\* What renewLease and assertLeaseFence ask of the row: also not released and
\* not out of time.
Current(p, r) == Owned(p, r) /\ leases[r].state = "held"

acquireLease(p, r) ==
    /\ Available(r)
    /\ sequence' = sequence + 1
    /\ leases' = [leases EXCEPT ![r] =
                    [state |-> "held", owner |-> p, token |-> sequence + 1]]
    /\ held' = [held EXCEPT ![p][r] = sequence + 1]
    /\ UNCHANGED fenced

\* The release asks for the owner and the token only: a lease that has run out
\* can still be released.  The caller forgets the lease in any case.
releaseLease(p, r) ==
    /\ held[p][r] # 0
    /\ leases' = IF Owned(p, r) /\ leases[r].state \in {"held", "expired"}
                 THEN [leases EXCEPT ![r].state = "released"] ELSE leases
    /\ held' = [held EXCEPT ![p][r] = 0]
    /\ UNCHANGED <<sequence, fenced>>

\* The process dies or gives up with the release unanswered.
forgetLease(p, r) ==
    /\ held[p][r] # 0
    /\ held' = [held EXCEPT ![p][r] = 0]
    /\ UNCHANGED <<leases, sequence, fenced>>

\* assertLeaseFence in the transaction of a mutation that then commits.
assertLeaseFence(p, r) ==
    /\ held[p][r] # 0
    /\ Current(p, r)
    /\ fenced' = [fenced EXCEPT ![r] = held[p][r]]
    /\ UNCHANGED <<leases, sequence, held>>

expireLease(r) ==
    /\ leases[r].state = "held"
    /\ leases' = [leases EXCEPT ![r].state = "expired"]
    /\ UNCHANGED <<sequence, held, fenced>>

\* Rows released or out of time longer than the retention are deleted.  The
\* sequence is not part of the row, so no token comes back.
cleanupLeases(r) ==
    /\ leases[r].state \in {"expired", "released"}
    /\ leases' = [leases EXCEPT ![r] = NoLease]
    /\ UNCHANGED <<sequence, held, fenced>>

LeaseNext ==
    \/ \E p \in Processes, r \in Resources :
           \/ acquireLease(p, r) \/ releaseLease(p, r)
           \/ forgetLease(p, r) \/ assertLeaseFence(p, r)
    \/ \E r \in Resources : expireLease(r) \/ cleanupLeases(r)

LeaseSpec == LeaseInit /\ [][LeaseNext]_leaseVars

-----------------------------------------------------------------------------
(* No mutation commits under a token older than that of a mutation already *)
(* committed for the same resource: a holder that was paused past the end  *)
(* of its lease cannot write after the process that took the lease over    *)
(* has (assertLeaseFence).                                                 *)
FenceMonotone == [][\A r \in Resources : fenced'[r] >= fenced[r]]_leaseVars

\* What makes FenceMonotone inductive.
TokensFromSequence ==
    \A r \in Resources :
        /\ fenced[r] <= sequence /\ leases[r].token <= sequence
        /\ leases[r].state # "absent" => fenced[r] <= leases[r].token
=============================================================================
