-------------------------- MODULE FencedLeaseProofs --------------------------
(***************************************************************************)
(* FenceMonotone for any processes and resources.  A mutation commits      *)
(* under the token of the row, and a row's token only grows, because every *)
(* acquisition draws the next value of one sequence: TokensFromSequence    *)
(* carries both facts.                                                     *)
(***************************************************************************)
EXTENDS FencedLease, TLAPS

LeaseInv == LeaseTypeOK /\ TokensFromSequence

LEMMA LeaseInitInv == LeaseInit => LeaseInv
  BY LeaseAssumption DEF LeaseInit, LeaseInv, LeaseTypeOK, TokensFromSequence, NoLease

(* One step of the leases keeps the invariant, and takes no fence back. *)
LEMMA LeaseStep ==
  ASSUME LeaseInv, [LeaseNext]_leaseVars
  PROVE  LeaseInv' /\ \A r \in Resources : fenced'[r] >= fenced[r]
<1> USE DEF LeaseInv, LeaseTypeOK, TokensFromSequence
<1>1. ASSUME NEW p \in Processes, NEW r \in Resources, acquireLease(p, r)
      PROVE  LeaseInv' /\ \A s \in Resources : fenced'[s] >= fenced[s]
  BY <1>1 DEF acquireLease, Available
<1>2. ASSUME NEW p \in Processes, NEW r \in Resources, releaseLease(p, r)
      PROVE  LeaseInv' /\ \A s \in Resources : fenced'[s] >= fenced[s]
  BY <1>2 DEF releaseLease, Owned
<1>3. ASSUME NEW p \in Processes, NEW r \in Resources, forgetLease(p, r)
      PROVE  LeaseInv' /\ \A s \in Resources : fenced'[s] >= fenced[s]
  BY <1>3 DEF forgetLease
<1>4. ASSUME NEW p \in Processes, NEW r \in Resources, assertLeaseFence(p, r)
      PROVE  LeaseInv' /\ \A s \in Resources : fenced'[s] >= fenced[s]
  BY <1>4 DEF assertLeaseFence, Current, Owned
<1>5. ASSUME NEW r \in Resources, expireLease(r)
      PROVE  LeaseInv' /\ \A s \in Resources : fenced'[s] >= fenced[s]
  <2>1. leases' \in [Resources -> [state : {"absent", "held", "expired", "released"},
                                  owner : Processes \cup {NoOwner}, token : Nat]]
    BY <1>5 DEF expireLease
  <2>2. \A s \in Resources : /\ leases'[s].token = leases[s].token
                             /\ leases'[s].state # "absent" => leases[s].state # "absent"
    BY <1>5 DEF expireLease
  <2> QED
    BY <1>5, <2>1, <2>2 DEF expireLease
<1>6. ASSUME NEW r \in Resources, cleanupLeases(r)
      PROVE  LeaseInv' /\ \A s \in Resources : fenced'[s] >= fenced[s]
  BY <1>6 DEF cleanupLeases, NoLease
<1>7. CASE UNCHANGED leaseVars
  BY <1>7 DEF leaseVars
<1> QED
  BY <1>1, <1>2, <1>3, <1>4, <1>5, <1>6, <1>7 DEF LeaseNext

(* The rows, the tokens the processes remember and the fences keep their   *)
(* types, and no token is ahead of the sequence.                           *)
THEOREM LeasesWellFormed == LeaseSpec => [](LeaseTypeOK /\ TokensFromSequence)
<1>1. LeaseInv /\ [LeaseNext]_leaseVars => LeaseInv'
  BY LeaseStep
<1> QED
  BY LeaseInitInv, <1>1, PTL DEF LeaseSpec, LeaseInv

(* Whatever is paused past the end of its lease, no mutation commits under *)
(* an older token than one that has committed before it.                   *)
THEOREM FencesGrow == LeaseSpec => FenceMonotone
<1>1. LeaseInv /\ [LeaseNext]_leaseVars => LeaseInv'
  BY LeaseStep
<1>2. LeaseInv /\ [LeaseNext]_leaseVars
        => [\A r \in Resources : fenced'[r] >= fenced[r]]_leaseVars
  BY LeaseStep
<1> QED
  BY LeaseInitInv, <1>1, <1>2, PTL DEF LeaseSpec, FenceMonotone
=============================================================================
