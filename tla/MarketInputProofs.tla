--------------------------- MODULE MarketInputProofs ---------------------------
(***************************************************************************)
(* A theorem about MarketInput, for any set of bonds, any facts, snapshot   *)
(* mode and number of answers: a frozen map has its conflicts settled by    *)
(* evidence.                                                                *)
(*                                                                          *)
(* The property is not inductive: it speaks of the frozen map, and is owed  *)
(* to what was written long before.  Behind it stands that the trusted      *)
(* input, whenever there is one, settles every conflict - also where the    *)
(* validator was killed before its verdict, since it removes the input only *)
(* after a refusal and writes it only when every conflict has its proof -   *)
(* and that a request under review names the conflicts, all of them.        *)
(***************************************************************************)
EXTENDS MarketInput, TLAPS

Gathering == {"S1", "S2", "S3", "S4", "S5"}

\* The trusted input settles every conflict, and so does what the map was made of.
InputSettles ==
    /\ pc \in Gathering => trusted = Absent
    /\ trusted # Absent => trusted.rows \subseteq base /\ Conflicts \subseteq trusted.settled
    /\ pc \in {"C1", "C6"} => trusted # Absent
    /\ pc # "end" => snapshot = Absent
    /\ snapshot # Absent => trusted # Absent /\ snapshot.rows \subseteq base

\* What is under review are the conflicts.
RequestIsConflicts ==
    pc \in {"R", "V", "C0"} => request = Conflicts \/ Conflicts = {}

IInv == InputSettles /\ RequestIsConflicts

LEMMA InvInit == InputInit => IInv
  BY DEF InputInit, IInv, InputSettles, RequestIsConflicts, Gathering

\* An answer that is accepted settles all that was requested.
LEMMA AcceptedSettles ==
    ASSUME NEW a, Accepted(a)
    PROVE  Applied(a) = request
  BY DEF Accepted, Covers, Evidenced, UsableAnswer, Applied

LEMMA InvNext == IInv /\ [InputNext]_inputVars => IInv'
<1> SUFFICES ASSUME IInv, [InputNext]_inputVars PROVE IInv'
  OBVIOUS
<1> USE DEF IInv, InputSettles, RequestIsConflicts, Gathering
<1>1. CASE ReadMarket \/ Universe \/ Maturity \/ Size
  BY <1>1 DEF ReadMarket, Universe, Maturity, Size, Fails, Proceeds
<1>2. CASE Audit
  <2>1. Conflicts' = Conflicts
    BY <1>2 DEF Audit, Conflicts
  <2> QED
    BY <1>2, <2>1 DEF Audit, TrustedRows
<1>3. CASE ValidateWrite
  <2>1. Conflicts' = Conflicts
    BY <1>3 DEF ValidateWrite, Conflicts
  <2>2. CASE Accepted(answer) /\ \A b \in base : Complete(b)
    <3>1. trusted' = [rows |-> base, settled |-> request]
      BY <1>3, <2>2, AcceptedSettles DEF ValidateWrite
    <3> QED
      BY <1>3, <2>1, <3>1 DEF ValidateWrite
  <2>3. CASE ~(Accepted(answer) /\ \A b \in base : Complete(b))
    BY <1>3, <2>1, <2>3 DEF ValidateWrite
  <2> QED
    BY <2>2, <2>3
<1>4. CASE ValidateEnd \/ ValidateKilled
  <2>1. Conflicts' = Conflicts
    BY <1>4 DEF ValidateEnd, ValidateKilled, Conflicts
  <2>2. pc = "V" /\ pc' \in {"R", "C0"} /\ trusted' \in {trusted, Absent}
        /\ UNCHANGED <<base, request, snapshot>>
    BY <1>4 DEF ValidateEnd, ValidateKilled
  <2> QED
    BY <2>1, <2>2
<1>5. CASE Submit \/ AskedAnyway \/ Gate \/ Fit
  <2>1. UNCHANGED <<base, trusted, request, snapshot, facts, dated>>
    BY <1>5 DEF Submit, AskedAnyway, Gate, Fit
  <2>2. Conflicts' = Conflicts
    BY <2>1 DEF Conflicts
  <2>3. /\ pc \notin Gathering \cup {"end"} /\ pc' \notin Gathering
        /\ pc' \in {"R", "V", "C0"} => pc \in {"R", "V", "C0"}
        /\ pc' \in {"C1", "C6"} => pc \in {"C1", "C6"} \/ trusted # Absent
    BY <1>5 DEF Submit, AskedAnyway, Gate, Fit, InputIsTrusted
  <2> QED
    BY <2>1, <2>2, <2>3
<1>6. CASE Freeze
  <2>1. Conflicts' = Conflicts
    BY <1>6 DEF Freeze, Conflicts
  <2>2. /\ pc = "C6" /\ pc' = "end" /\ base' = base /\ trusted' = trusted
        /\ snapshot' # Absent => snapshot'.rows \subseteq trusted.rows
    BY <1>6 DEF Freeze
  <2> QED
    BY <2>1, <2>2
<1>7. CASE UNCHANGED inputVars
  BY <1>7 DEF inputVars, Conflicts
<1> QED
  BY <1>1, <1>2, <1>3, <1>4, <1>5, <1>6, <1>7 DEF InputNext

LEMMA InvSettles == IInv => SettledByEvidence
<1> SUFFICES ASSUME IInv, snapshot # Absent, NEW b \in snapshot.rows
             PROVE  /\ facts[b].K = "differs" => <<b, "K">> \in trusted.settled
                    /\ b \in dated /\ facts[b].aux = "far"
                         => <<b, "maturity_date">> \in trusted.settled
  BY DEF SettledByEvidence
<1>1. b \in base /\ Conflicts \subseteq trusted.settled
  BY DEF IInv, InputSettles
<1>2. /\ facts[b].K = "differs" => <<b, "K">> \in Conflicts
      /\ b \in dated /\ facts[b].aux = "far" => <<b, "maturity_date">> \in Conflicts
  BY <1>1 DEF Conflicts
<1> QED
  BY <1>1, <1>2

\* Whatever the sources say, however often answers are refused and wherever the validator
\* is killed: a map that was frozen has its conflicts settled (MarketInput.tla).
THEOREM Settled == InputSpec => []SettledByEvidence
<1>1. IInv /\ [InputNext]_inputVars => IInv'
  BY InvNext
<1> QED
  BY InvInit, <1>1, InvSettles, PTL DEF InputSpec
=============================================================================
