----------------------------- MODULE TableLease -----------------------------
(***************************************************************************)
(* What the order scheduler promises, without its queues and processes:    *)
(* every split table (a label) goes through free -> granted -> dealing ->  *)
(* done -> free, one child at a time deals it, and a label whose child     *)
(* died is lost until the whole program is started again.                  *)
(***************************************************************************)
CONSTANTS Label,   \* the split tables
          Child,   \* the children that deal with them
          Idle     \* no table: a value outside Label

VARIABLES phase,   \* phase[l]: where the table l is in its cycle
          working  \* working[c]: the table the child c is dealing with

leaseVars == <<phase, working>>

LeaseTypeOK ==
    /\ phase \in [Label -> {"free", "granted", "dealing", "done", "lost"}]
    /\ working \in [Child -> Label \cup {Idle}]

LeaseInit ==
    /\ phase = [l \in Label |-> "free"]
    /\ working = [c \in Child |-> Idle]

\* The scheduler hands out a free table; the child may already be gone.
Grant(l) ==
    /\ phase[l] = "free"
    /\ \E p \in {"granted", "lost"} : phase' = [phase EXCEPT ![l] = p]
    /\ UNCHANGED working

Begin(c, l) ==
    /\ phase[l] = "granted"
    /\ working[c] = Idle
    /\ phase' = [phase EXCEPT ![l] = "dealing"]
    /\ working' = [working EXCEPT ![c] = l]

End(c, l) ==
    /\ working[c] = l
    /\ phase' = [phase EXCEPT ![l] = "done"]
    /\ working' = [working EXCEPT ![c] = Idle]

Release(l) ==
    /\ phase[l] = "done"
    /\ phase' = [phase EXCEPT ![l] = "free"]
    /\ UNCHANGED working

\* A child dies: whatever it was granted, dealing with or about to report
\* is lost.
Lose(c, l) ==
    /\ \/ working[c] = l
       \/ working[c] = Idle /\ phase[l] \in {"granted", "done"}
    /\ phase' = [phase EXCEPT ![l] = "lost"]
    /\ working' = [working EXCEPT ![c] = Idle]

\* The program is stopped and started again.
Revoke ==
    /\ phase' = [l \in Label |-> "free"]
    /\ working' = [c \in Child |-> Idle]

LeaseNext ==
    \/ \E l \in Label : Grant(l) \/ Release(l)
    \/ \E c \in Child, l \in Label : Begin(c, l) \/ End(c, l) \/ Lose(c, l)
    \/ Revoke

LeaseSpec == LeaseInit /\ [][LeaseNext]_leaseVars
=============================================================================
