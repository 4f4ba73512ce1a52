-------------------------- MODULE ProofLock_proofs --------------------------
(***************************************************************************)
(* Facts about the evidence of one lock, for every profile and every retry *)
(* policy: what the ends of fetchLock return is admissible, admissible     *)
(* evidence is well formed and sound, and it is unique where no answer     *)
(* races the deadline; and what a step of one fetch does to the number of  *)
(* fetches in a group of states.                                           *)
(***************************************************************************)
EXTENDS ProofLock, FiniteSetTheorems, TLAPS

(* Types *)

LEMMA EvidenceNotZero == ZeroEvidence \notin Evidence
BY DEF ZeroEvidence, Evidence

\* Whatever a lock's profile is, an answer becomes well-formed evidence.
LEMMA AnswerType ==
  ASSUME NEW p \in Profile, NEW n \in 0..MaxAttempts
  PROVE  AnswerEvidence(p, n) \in Evidence
<1>1. BodyEvidence(p, n) \in Evidence
  BY DEF BodyEvidence, UnknownEvidence, RefutedEvidence, ClosedEvidence,
         Evidence, UnknownReasons, Counterexamples, None, Profile, Fields
<1>2. \A s : UnknownEvidence(ReasonForStatus(s), n) \in Evidence
  BY DEF UnknownEvidence, ReasonForStatus, Evidence, UnknownReasons, None
<1>. QED
  BY <1>1, <1>2 DEF AnswerEvidence

-----------------------------------------------------------------------------
(* The evidence an end of fetchLock returns is admissible *)

\* A fetch that comes to its loop's head again has failed or was told to retry.
MayRetry(p) ==
  CanFail(p) \/ (ReplyStatus(p) # 200 /\ IsRetryable(ReplyStatus(p)))

LEMMA ReusedAdmissible ==
  ASSUME NEW p, p.behavior = "reused"
  PROVE  ReusedEvidence \in Admissible(p)
BY DEF Admissible

LEMMA TimeoutAdmissible ==
  ASSUME NEW p, p.behavior # "reused", CanFail(p)
  PROVE  UnknownEvidence("HTTP_TIMEOUT", MaxAttempts) \in Admissible(p)
BY DEF Admissible

LEMMA BodyReadAdmissible ==
  ASSUME NEW p, p.behavior # "reused", p.deadline = "either",
         ReplyStatus(p) = 200, NEW n \in 1..MaxAttempts
  PROVE  UnknownEvidence("HTTP_BODY_READ_FAILED", n) \in Admissible(p)
BY DEF Admissible

LEMMA AnswerAdmissible ==
  ASSUME NEW p, p.behavior # "reused", CanAnswer(p), NEW n \in 1..MaxAttempts,
         n = 1 \/ MayRetry(p),
         ReplyStatus(p) = 200 \/ ~IsRetryable(ReplyStatus(p)) \/ n = MaxAttempts
  PROVE  AnswerEvidence(p, n) \in Admissible(p)
<1>1. n \in AnswerAttempts(p)
  BY DEF AnswerAttempts, MayRetry
<1>. QED
  BY <1>1 DEF Admissible

-----------------------------------------------------------------------------
(* What admissible evidence is *)

\* The evidence a profile accounts for is well formed.
LEMMA AdmissibleType ==
  ASSUME NEW p \in Profile
  PROVE  Admissible(p) \subseteq Evidence
<1>. SUFFICES ASSUME NEW e \in Admissible(p) PROVE e \in Evidence
  OBVIOUS
<1>1. ReusedEvidence \in Evidence
  BY RetryAssumption DEF ReusedEvidence, Evidence, None
<1>2. \A n \in 1..MaxAttempts :
        /\ UnknownEvidence("HTTP_TIMEOUT", n) \in Evidence
        /\ UnknownEvidence("HTTP_BODY_READ_FAILED", n) \in Evidence
  BY DEF UnknownEvidence, Evidence, UnknownReasons, None
<1>3. \A n \in 1..MaxAttempts : AnswerEvidence(p, n) \in Evidence
  BY AnswerType
<1>4. AnswerAttempts(p) \subseteq 1..MaxAttempts /\ MaxAttempts \in 1..MaxAttempts
  BY RetryAssumption DEF AnswerAttempts
<1>. QED
  BY <1>1, <1>2, <1>3, <1>4 DEF Admissible

\* Timing leaves no choice to a profile whose answer does not race the deadline.
LEMMA DeterminateIsUnique ==
  ASSUME NEW p \in Profile, Determinate(p),
         NEW e \in Admissible(p), NEW f \in Admissible(p)
  PROVE  e = f
<1>1. CASE p.behavior = "reused"
  BY <1>1 DEF Admissible
<1>2. CASE p.behavior # "reused" /\ (Dropped(p) \/ p.deadline = "missed")
  <2>1. /\ ~CanAnswer(p)
        /\ ~(p.deadline = "either" /\ ReplyStatus(p) = 200)
    BY <1>2 DEF CanAnswer, Dropped
  <2>2. Admissible(p) \subseteq {UnknownEvidence("HTTP_TIMEOUT", MaxAttempts)}
    BY <1>2, <2>1 DEF Admissible
  <2>. QED
    BY <2>2
<1>3. CASE p.behavior # "reused" /\ ~Dropped(p) /\ p.deadline = "met"
  <2>1. ~CanFail(p) /\ ~(p.deadline = "either" /\ ReplyStatus(p) = 200)
    BY <1>3 DEF CanFail
  <2>2. PICK n : AnswerAttempts(p) = {n}
    BY <2>1 DEF AnswerAttempts
  <2>3. Admissible(p) \subseteq {AnswerEvidence(p, n)}
    BY <1>3, <2>1, <2>2 DEF Admissible
  <2>. QED
    BY <2>3
<1>. QED
  BY <1>1, <1>2, <1>3 DEF Determinate, Profile, Deadlines

\* The verdict a profile may end with, for one piece of evidence.
SoundFor(p, e) ==
  LET Known == ReplyStatus(p) = 200 /\ p.deadline # "missed"
                 /\ "empty" \notin {p.coordinate, p.digest}
  IN  e # ZeroEvidence /\ ~e.reused =>
        CASE e.status = "CLOSED" ->
               Known /\ "other" \notin {p.coordinate, p.digest}
          [] e.status = "REFUTED" ->
               /\ Known /\ "other" \in {p.coordinate, p.digest}
               /\ e.counterexample # None
          [] OTHER ->
               /\ Known => p.deadline = "either"
               /\ e.unknown # None /\ e.digest = None

LEMMA UnknownSound ==
  ASSUME NEW p, NEW reason \in UnknownReasons, NEW n,
         \/ p.deadline \in {"either", "missed"}
         \/ ReplyStatus(p) # 200
         \/ "empty" \in {p.coordinate, p.digest}
  PROVE  SoundFor(p, UnknownEvidence(reason, n))
BY DEF SoundFor, UnknownEvidence, UnknownReasons, None

LEMMA AdmissibleSound ==
  ASSUME NEW p \in Profile, NEW e \in Admissible(p)
  PROVE  SoundFor(p, e)
<1>1. CASE p.behavior = "reused"
  <2>1. e = ReusedEvidence
    BY <1>1 DEF Admissible
  <2>. QED
    BY <2>1 DEF SoundFor, ReusedEvidence
<1>2. CASE CanFail(p) /\ e = UnknownEvidence("HTTP_TIMEOUT", MaxAttempts)
  <2>1. p.deadline \in {"either", "missed"} \/ ReplyStatus(p) # 200
    BY <1>2 DEF CanFail, Dropped, Profile, Deadlines
  <2>. QED
    BY <1>2, <2>1, UnknownSound DEF UnknownReasons
<1>3. CASE /\ p.deadline = "either"
           /\ \E n \in 1..MaxAttempts :
                e = UnknownEvidence("HTTP_BODY_READ_FAILED", n)
  BY <1>3, UnknownSound DEF UnknownReasons
<1>4. ASSUME CanAnswer(p), NEW n, e = AnswerEvidence(p, n)
      PROVE  SoundFor(p, e)
  <2>1. p.deadline # "missed" /\ p.coordinate \in Fields /\ p.digest \in Fields
    BY <1>4 DEF CanAnswer, Profile
  <2>2. CASE ReplyStatus(p) # 200
    <3>1. ReasonForStatus(ReplyStatus(p)) \in UnknownReasons
      BY DEF ReasonForStatus, UnknownReasons
    <3>. QED
      BY <1>4, <2>2, <3>1, UnknownSound DEF AnswerEvidence
  <2>3. CASE ReplyStatus(p) = 200 /\ "empty" \in {p.coordinate, p.digest}
    <3>1. e = UnknownEvidence("HTTP_BODY_AMBIGUOUS", n)
      BY <1>4, <2>1, <2>3 DEF AnswerEvidence, BodyEvidence
    <3>. QED
      BY <2>3, <3>1, UnknownSound DEF UnknownReasons
  <2>4. CASE ReplyStatus(p) = 200 /\ "empty" \notin {p.coordinate, p.digest}
    <3>1. e = BodyEvidence(p, n)
      BY <1>4, <2>4 DEF AnswerEvidence
    <3>2. CASE p.coordinate = "other"
      <4>1. e = RefutedEvidence("COORDINATE_CONTRADICTION", p.digest, n)
        BY <2>1, <2>4, <3>1, <3>2 DEF BodyEvidence
      <4>. QED
        BY <2>1, <2>4, <3>2, <4>1 DEF SoundFor, RefutedEvidence, None
    <3>3. CASE p.coordinate = "declared" /\ p.digest = "other"
      <4>1. e = RefutedEvidence("KNOWN_DIGEST_MISMATCH", p.digest, n)
        BY <2>1, <2>4, <3>1, <3>3 DEF BodyEvidence
      <4>. QED
        BY <2>1, <2>4, <3>3, <4>1 DEF SoundFor, RefutedEvidence, None
    <3>4. CASE p.coordinate = "declared" /\ p.digest = "declared"
      <4>1. e = ClosedEvidence(n)
        BY <3>1, <3>4 DEF BodyEvidence
      <4>. QED
        BY <2>1, <2>4, <3>4, <4>1 DEF SoundFor, ClosedEvidence
    <3>. QED
      BY <2>1, <2>4, <3>2, <3>3, <3>4 DEF Fields
  <2>. QED
    BY <2>2, <2>3, <2>4
<1>. QED
  BY <1>1, <1>2, <1>3, <1>4 DEF Admissible

\* Only a lock that was closed without a request is marked as reused.
LEMMA ReusedIsClosed ==
  ASSUME NEW p \in Profile, NEW e \in Admissible(p), e.reused
  PROVE  e.status = "CLOSED"
<1>1. \A reason, n : ~UnknownEvidence(reason, n).reused
  BY DEF UnknownEvidence
<1>2. \A n : ~AnswerEvidence(p, n).reused
  BY <1>1 DEF AnswerEvidence, BodyEvidence, RefutedEvidence, ClosedEvidence
<1>3. e = ReusedEvidence
  BY <1>1, <1>2 DEF Admissible
<1>. QED
  BY <1>3 DEF ReusedEvidence

\* An answer is recorded with the attempt it answers.
LEMMA AnswerAttempt ==
  ASSUME NEW p, NEW n
  PROVE  AnswerEvidence(p, n).attempts = n
BY DEF AnswerEvidence, BodyEvidence, UnknownEvidence, RefutedEvidence,
       ClosedEvidence

-----------------------------------------------------------------------------
(* Counting the fetches whose control is in a set of states, where a number *)
(* of the program stands for how many there are                             *)

At(f, S) == {k \in DOMAIN f : f[k] \in S}

One(b) == IF b THEN 1 ELSE 0

\* g is f but for the value of i.
Moved(f, g, i, v) == g = [f EXCEPT ![i] = v]

LEMMA AtFinite ==
  ASSUME NEW f, IsFiniteSet(DOMAIN f), NEW S
  PROVE  /\ IsFiniteSet(At(f, S))
         /\ Cardinality(At(f, S)) \in Nat
         /\ Cardinality(At(f, S)) <= Cardinality(DOMAIN f)
<1>1. At(f, S) \in SUBSET (DOMAIN f)
  BY DEF At
<1>. QED
  BY <1>1, FS_Subset, FS_CardinalityType

LEMMA AtMonotone ==
  ASSUME NEW f, IsFiniteSet(DOMAIN f), NEW S, NEW T, S \subseteq T
  PROVE  Cardinality(At(f, S)) <= Cardinality(At(f, T))
<1>1. At(f, S) \in SUBSET At(f, T)
  BY DEF At
<1>. QED
  BY <1>1, AtFinite, FS_Subset

\* Moving one process changes the count by what it enters and leaves.
LEMMA AtMove ==
  ASSUME NEW P, IsFiniteSet(P), NEW T, NEW f \in [P -> T], NEW S,
         NEW i \in P, NEW v, NEW g, Moved(f, g, i, v)
  PROVE  Cardinality(At(g, S))
           = Cardinality(At(f, S)) + One(v \in S) - One(f[i] \in S)
<1>. DEFINE A == At(f, S)  B == At(g, S)
<1>1. IsFiniteSet(A) /\ Cardinality(A) \in Nat
  BY AtFinite
<1>2. CASE v \in S /\ f[i] \notin S
  <2>1. B = A \cup {i} /\ i \notin A
    BY <1>2 DEF At, Moved
  <2>2. One(v \in S) = 1 /\ One(f[i] \in S) = 0
    BY <1>2 DEF One
  <2>3. Cardinality(A \cup {i}) = Cardinality(A) + 1
    BY <1>1, <2>1, FS_AddElement
  <2>4. Cardinality(B) = Cardinality(A \cup {i})
    BY <2>1, Zenon
  <2>. QED
    BY <1>1, <2>2, <2>3, <2>4
<1>3. CASE v \notin S /\ f[i] \in S
  <2>1. B = A \ {i} /\ i \in A
    BY <1>3 DEF At, Moved
  <2>2. One(v \in S) = 0 /\ One(f[i] \in S) = 1
    BY <1>3 DEF One
  <2>3. Cardinality(A \ {i}) = Cardinality(A) - 1
    BY <1>1, <2>1, FS_RemoveElement
  <2>4. Cardinality(B) = Cardinality(A \ {i})
    BY <2>1, Zenon
  <2>. QED
    BY <1>1, <2>2, <2>3, <2>4
<1>4. CASE v \in S <=> f[i] \in S
  <2>1. B = A
    BY <1>4 DEF At, Moved
  <2>. QED
    BY <1>1, <1>4, <2>1 DEF One
<1>. QED
  BY <1>2, <1>3, <1>4

\* Two finite sets without a common element have as many together.
LEMMA DisjointUnion ==
  ASSUME NEW S, IsFiniteSet(S), NEW T, IsFiniteSet(T), S \cap T = {}
  PROVE  /\ IsFiniteSet(S \cup T)
         /\ Cardinality(S \cup T) = Cardinality(S) + Cardinality(T)
BY FS_Union, FS_EmptySet, FS_CardinalityType

=============================================================================
