---------------------------- MODULE AppleProofs ----------------------------
(***************************************************************************)
(* Theorems about AppleDecisions, for every set of notifications and of    *)
(* responses: what is not signed by Apple leaves no trace, and reconciling *)
(* selects the newest acceptable transaction.                              *)
(*                                                                         *)
(* The loops of the code are recursive functions.  What they compute is    *)
(* shown with the least number for which it would fail: LeastNumber is the *)
(* induction principle, in a form that speaks of a set.                    *)
(***************************************************************************)
EXTENDS AppleDecisions, SequenceTheorems, WellFoundedInduction, TLAPS

(* A set of numbers has a least one. *)
LEMMA LeastNumber ==
  ASSUME NEW T \in SUBSET Nat, T # {}
  PROVE  \E m \in T : \A k \in T : m <= k
<1> DEFINE Below == OpToRel(<, Nat)
<1>1. PICK m \in T : \A k \in T : ~ (<<k, m>> \in Below)
  <2> HIDE DEF Below
  <2>1. IsWellFoundedOn(Below, Nat)
    BY NatLessThanWellFounded DEF Below
  <2>2. QED
    BY <2>1, WFMin, Zenon
<1>2. ASSUME NEW k \in T  PROVE  m <= k
  <2>1. k \in Nat /\ m \in Nat
    OBVIOUS
  <2>2. <<k, m>> \in Nat \X Nat /\ <<k, m>>[1] = k /\ <<k, m>>[2] = m
    BY <2>1
  <2>3. ~ (k < m)
    BY <1>1, <2>2 DEF OpToRel
  <2>4. QED
    BY <2>1, <2>3
<1>3. QED
  BY <1>2

(* Induction: a set that has 0 and, up to N, the successors of its members.   *)
LEMMA Induction ==
  ASSUME NEW N \in Nat, NEW T, 0 \in T, \A n \in 1..N : n - 1 \in T => n \in T
  PROVE  \A n \in 0..N : n \in T
<1> DEFINE Failing == {n \in 0..N : n \notin T}
<1>1. SUFFICES ASSUME Failing # {}  PROVE FALSE
  OBVIOUS
<1>2. PICK m \in Failing : \A k \in Failing : m <= k
  <2> HIDE DEF Failing
  <2>1. Failing \in SUBSET Nat
    BY DEF Failing
  <2>2. QED
    BY <1>1, <2>1, LeastNumber
<1>3. m \in 1..N /\ m - 1 \in 0..N /\ ~ (m <= m - 1)
  OBVIOUS
<1>4. m - 1 \in T
  BY <1>2, <1>3
<1>5. QED
  BY <1>3, <1>4

(* The intermediate results of a loop over 1..N that starts with base and    *)
(* whose n-th turn makes step[<<n, x>>] of x.                                *)
Results(f, N, base, step) ==
  f[0] = base /\ \A n \in 1..N : f[n] = step[<<n, f[n - 1]>>]

(* A loop whose turns stay in S has its results. *)
LEMMA LoopRuns ==
  ASSUME NEW N \in Nat, NEW S, NEW base \in S, NEW step \in [(1..N) \X S -> S]
  PROVE  \E f \in [0..N -> S] : Results(f, N, base, step)
<1> USE DEF Results
<1> DEFINE Runs(m, f) == Results(f, m, base, step)
           T == {m \in 0..N : \E f \in [0..m -> S] : Runs(m, f)}
<1>1. 0 \in T
  <2> DEFINE f == [n \in 0..0 |-> base]
  <2>1. f \in [0..0 -> S] /\ Runs(0, f)
    OBVIOUS
  <2> HIDE DEF f
  <2>2. QED
    BY <2>1
<1>2. ASSUME NEW m \in 1..N, m - 1 \in T  PROVE m \in T
  <2>1. PICK f \in [0..(m - 1) -> S] : Runs(m - 1, f)
    BY <1>2
  <2> DEFINE g == [n \in 0..m |-> IF n = m THEN step[<<m, f[m - 1]>>] ELSE f[n]]
  <2>2. m - 1 \in 0..(m - 1)
    OBVIOUS
  <2>3. step[<<m, f[m - 1]>>] \in S
    BY <2>2
  <2>4. g \in [0..m -> S]
    <3>1. ASSUME NEW n \in 0..m, n # m  PROVE f[n] \in S
      <4>1. n \in 0..(m - 1)
        BY <3>1
      <4>2. QED
        BY <4>1
    <3>2. QED
      BY <2>3, <3>1
  <2>5. g[0] = base
    BY <2>1
  <2>6. ASSUME NEW n \in 1..m  PROVE g[n] = step[<<n, g[n - 1]>>]
    <3>1. n - 1 \in 0..m /\ n - 1 # m
      OBVIOUS
    <3>2. g[n - 1] = f[n - 1]
      BY <3>1
    <3>3. CASE n = m
      <4>1. g[m] = step[<<m, f[m - 1]>>]
        OBVIOUS
      <4>2. QED
        BY <3>2, <3>3, <4>1
    <3>4. CASE n # m
      <4>1. n \in 1..(m - 1) /\ n \in 0..m
        BY <3>4
      <4>2. g[n] = f[n]
        BY <3>4, <4>1
      <4>3. QED
        BY <2>1, <3>2, <4>1, <4>2
    <3>5. QED
      BY <3>3, <3>4
  <2> HIDE DEF g
  <2>7. QED
    BY <2>4, <2>5, <2>6
<1>3. N \in T
  <2> HIDE DEF T
  <2>1. \A n \in 0..N : n \in T
    BY <1>1, <1>2, Induction
  <2>2. QED
    BY <2>1
<1>4. QED
  BY <1>3
-----------------------------------------------------------------------------
(* A response's groups in reading order are a sequence of its items. *)
LEMMA FlattenSeqIsSeq ==
  ASSUME NEW S, NEW seqs \in Seq(Seq(S))
  PROVE  FlattenSeq(seqs) \in Seq(S)
<1> DEFINE N == Len(seqs)
           flatten[i \in 1..N] == IF i = 1 THEN seqs[i] ELSE flatten[i - 1] \o seqs[i]
<1>1. N \in Nat /\ \A i \in 1..N : seqs[i] \in Seq(S)
  BY LenProperties, ElementOfSeq
<1>2. CASE N = 0
  <2>1. seqs = <<>>
    BY <1>2, EmptySeq
  <2>2. QED
    BY <1>2, <2>1 DEF FlattenSeq
<1>3. CASE N # 0
  <2>1. \E f : f = [i \in 1..N |-> IF i = 1 THEN seqs[i] ELSE f[i - 1] \o seqs[i]]
    <3> DEFINE step == [p \in (1..N) \X Seq(S) |->
                          IF p[1] = 1 THEN seqs[p[1]] ELSE p[2] \o seqs[p[1]]]
    <3>1. step \in [(1..N) \X Seq(S) -> Seq(S)]
      <4>1. ASSUME NEW p \in (1..N) \X Seq(S)
            PROVE  (IF p[1] = 1 THEN seqs[p[1]] ELSE p[2] \o seqs[p[1]]) \in Seq(S)
        <5>1. p[1] \in 1..N /\ p[2] \in Seq(S) /\ seqs[p[1]] \in Seq(S)
          BY <1>1
        <5>2. p[2] \o seqs[p[1]] \in Seq(S)
          BY <5>1, ConcatProperties
        <5>3. QED
          BY <5>1, <5>2
      <4>2. QED
        BY <4>1
    <3>2. <<>> \in Seq(S)
      BY EmptySeq
    <3>3. PICK f \in [0..N -> Seq(S)] :
            f[0] = <<>> /\ \A n \in 1..N : f[n] = step[<<n, f[n - 1]>>]
      <4> HIDE DEF step, N
      <4>1. \E f \in [0..N -> Seq(S)] : Results(f, N, <<>>, step)
        BY <1>1, <3>1, <3>2, LoopRuns
      <4>2. QED
        BY <4>1 DEF Results
    <3> DEFINE g == [i \in 1..N |-> f[i]]
    <3>4. ASSUME NEW i \in 1..N
          PROVE  g[i] = IF i = 1 THEN seqs[i] ELSE g[i - 1] \o seqs[i]
      <4>1. i - 1 \in 0..N
        BY <1>1
      <4>2. <<i, f[i - 1]>> \in (1..N) \X Seq(S)
        BY <4>1
      <4>3. g[i] = IF i = 1 THEN seqs[i] ELSE f[i - 1] \o seqs[i]
        BY <3>3, <4>2
      <4>4. i # 1 => g[i - 1] = f[i - 1]
        BY <1>1
      <4>5. QED
        BY <4>3, <4>4
    <3>5. g = [i \in 1..N |-> g[i]]
      OBVIOUS
    <3> HIDE DEF g
    <3>6. g = [i \in 1..N |-> IF i = 1 THEN seqs[i] ELSE g[i - 1] \o seqs[i]]
      BY <3>4, <3>5
    <3>7. QED
      BY <3>6
  <2> HIDE DEF flatten, N
  <2>2. flatten = [i \in 1..N |-> IF i = 1 THEN seqs[i] ELSE flatten[i - 1] \o seqs[i]]
    BY <2>1 DEF flatten
  <2> DEFINE T == {0} \cup {i \in 1..N : flatten[i] \in Seq(S)}
  <2>3. ASSUME NEW i \in 1..N, i - 1 \in T  PROVE i \in T
    <3>1. CASE i = 1
      BY <1>1, <2>2, <3>1
    <3>2. CASE i # 1
      <4>1. flatten[i - 1] \in Seq(S) /\ seqs[i] \in Seq(S)
        BY <1>1, <2>3, <3>2
      <4>2. flatten[i] = flatten[i - 1] \o seqs[i]
        BY <2>2, <3>2
      <4>3. flatten[i] \in Seq(S)
        BY <4>1, <4>2, ConcatProperties
      <4>4. QED
        BY <4>3
    <3>3. QED
      BY <3>1, <3>2
  <2>4. N \in T
    <3>1. 0 \in T
      OBVIOUS
    <3> HIDE DEF T
    <3>2. \A n \in 0..N : n \in T
      BY <1>1, <2>3, <3>1, Induction
    <3>3. QED
      BY <1>1, <3>2
  <2>5. flatten[N] \in Seq(S)
    BY <1>3, <2>4
  <2>6. FlattenSeq(seqs) = flatten[N]
    BY <1>3 DEF FlattenSeq, flatten, N
  <2>7. QED
    BY <2>5, <2>6
<1>4. QED
  BY <1>2, <1>3
-----------------------------------------------------------------------------
(* A header's chain leads to an embedded root, so the leaf's key is one with *)
(* which Apple's servers sign, whatever else the header lists.               *)
LEMMA VerifiedIsGenuine ==
  ASSUME NEW token, token.x5c \in Seq(Certificates), verifyJWS(token)
  PROVE  Genuine(token)
<1> DEFINE x5c == token.x5c
           intermediates == {c \in ToSet(Tail(x5c)) : c.purpose = "authority"}
           names == AppleRootCertPool \cup {c.name : c \in intermediates}
           vouched == AppleAuthorities \cap names
<1>1. x5c # <<>>
  BY DEF verifyJWS
<1>2. Head(x5c) \in Certificates /\ Tail(x5c) \in Seq(Certificates)
  BY <1>1, HeadTailProperties
<1>3. \A c \in intermediates : c \in Certificates
  <2>1. \A i \in DOMAIN Tail(x5c) : Tail(x5c)[i] \in Certificates
    BY <1>2, LenProperties
  <2>2. QED
    BY <2>1 DEF ToSet
<1>4. AppleRootCertPool \subseteq vouched
  BY TrustAssumption
<1>5. ASSUME NEW c \in intermediates, c.issuer \in vouched  PROVE c.name \in vouched
  BY <1>3, <1>5, TrustAssumption
<1>6. Head(x5c).issuer \in vouched
  <2>1. vouched \in SUBSET names
    OBVIOUS
  <2>2. ChainVerifies(x5c)
    BY DEF verifyJWS
  <2> HIDE DEF vouched
  <2>3. QED
    BY <1>4, <1>5, <2>1, <2>2 DEF ChainVerifies
<1>7. Head(x5c).name \in NotificationKeys
  BY <1>2, <1>6, TrustAssumption DEF verifyJWS
<1>8. QED
  BY <1>7 DEF verifyJWS, Genuine

(* The same of the tokens inside a notification and of an item's. *)
LEMMA CarriedIsGenuine ==
  ASSUME NEW token, Carries(token), token # NoToken,
         VerifyTransaction(token) \/ VerifyRenewalInfo(token)
  PROVE  Genuine(token)
BY VerifiedIsGenuine DEF Carries, VerifyTransaction, VerifyRenewalInfo
-----------------------------------------------------------------------------
(* The loop of reconcileApplePurchase, turn by turn. *)
LEMMA SelectionRuns ==
  ASSUME NEW S, NEW items \in Seq(S), NEW purchase, NEW env
  PROVE  \E f : /\ f[0] = NoCandidate
                /\ \A n \in 1..Len(items) : f[n] = Newer(f[n - 1], items[n], purchase, env)
                /\ SelectedOf(items, purchase, env) = f[Len(items)]
<1> DEFINE N == Len(items)
           V == S \cup {NoCandidate}
           Selected[n \in 0..N] ==
             IF n = 0 THEN NoCandidate ELSE Newer(Selected[n - 1], items[n], purchase, env)
           step == [p \in (1..N) \X V |-> Newer(p[2], items[p[1]], purchase, env)]
<1>1. N \in Nat /\ \A i \in 1..N : items[i] \in S
  BY LenProperties, ElementOfSeq
<1>2. step \in [(1..N) \X V -> V]
  <2>1. ASSUME NEW p \in (1..N) \X V  PROVE Newer(p[2], items[p[1]], purchase, env) \in V
    <3>1. p[1] \in 1..N /\ p[2] \in V /\ items[p[1]] \in V
      BY <1>1
    <3>2. QED
      BY <3>1 DEF Newer
  <2>2. QED
    BY <2>1
<1>3. \E f : f = [n \in 0..N |-> IF n = 0 THEN NoCandidate
                                ELSE Newer(f[n - 1], items[n], purchase, env)]
  <2>1. PICK f \in [0..N -> V] : Results(f, N, NoCandidate, step)
    <3>1. NoCandidate \in V
      OBVIOUS
    <3> HIDE DEF step, N, V
    <3>2. QED
      BY <1>1, <1>2, <3>1, LoopRuns
  <2>2. ASSUME NEW n \in 0..N
        PROVE  f[n] = IF n = 0 THEN NoCandidate ELSE Newer(f[n - 1], items[n], purchase, env)
    <3>1. CASE n = 0
      BY <2>1, <3>1 DEF Results
    <3>2. CASE n # 0
      <4>1. n \in 1..N /\ n - 1 \in 0..N
        BY <1>1, <3>2
      <4>2. <<n, f[n - 1]>> \in (1..N) \X V
        BY <4>1
      <4>3. f[n] = step[<<n, f[n - 1]>>]
        BY <2>1, <4>1 DEF Results
      <4>4. QED
        BY <3>2, <4>2, <4>3
    <3>3. QED
      BY <3>1, <3>2
  <2>3. f = [n \in 0..N |-> f[n]]
    OBVIOUS
  <2>4. QED
    BY <2>2, <2>3
<1> HIDE DEF Selected, N
<1>4. Selected = [n \in 0..N |-> IF n = 0 THEN NoCandidate
                                 ELSE Newer(Selected[n - 1], items[n], purchase, env)]
  BY <1>3 DEF Selected
<1>5. Selected[0] = NoCandidate
  BY <1>1, <1>4
<1>6. ASSUME NEW n \in 1..N
      PROVE  Selected[n] = Newer(Selected[n - 1], items[n], purchase, env)
  BY <1>1, <1>4
<1>7. SelectedOf(items, purchase, env) = Selected[N]
  BY DEF SelectedOf, Selected, N
<1>8. QED
  BY <1>5, <1>6, <1>7 DEF N

(* i is what the first n items leave selected. *)
NewestOf(items, n, purchase, env, i) ==
  /\ i \in 1..n
  /\ Acceptable(items[i], purchase, env)
  /\ \A k \in 1..n : k # i /\ Acceptable(items[k], purchase, env) =>
       \/ SignedDate(items[k]) < SignedDate(items[i])
       \/ SignedDate(items[k]) = SignedDate(items[i]) /\ i < k

(* The loop ends with the newest acceptable item, or without one. *)
LEMMA SelectsNewest ==
  ASSUME NEW S, NEW items \in Seq(S), NEW purchase, NEW env,
         \A item \in S : item # NoCandidate,
         \A item \in S : item.transaction # NoToken => SignedDate(item) \in Int
  PROVE  LET selected == SelectedOf(items, purchase, env)
         IN  \/ selected = NoCandidate /\ Candidates(items, purchase, env) = {}
             \/ \E i \in DOMAIN items : /\ selected = items[i]
                                       /\ Newest(items, purchase, env) = {i}
                                       /\ Acceptable(items[i], purchase, env)
<1> DEFINE N == Len(items)
           Ok(i) == Acceptable(items[i], purchase, env)
           Chosen(n, x) == \/ x = NoCandidate /\ \A k \in 1..n : ~ Ok(k)
                           \/ \E i \in 1..n : x = items[i] /\ NewestOf(items, n, purchase, env, i)
<1>1. N \in Nat /\ DOMAIN items = 1..N /\ \A i \in 1..N : items[i] \in S
  BY LenProperties, ElementOfSeq
<1>2. PICK f : /\ f[0] = NoCandidate
               /\ \A n \in 1..N : f[n] = Newer(f[n - 1], items[n], purchase, env)
               /\ SelectedOf(items, purchase, env) = f[N]
  BY SelectionRuns
<1>3. ASSUME NEW i \in 1..N, Ok(i)  PROVE SignedDate(items[i]) \in Int
  BY <1>1, <1>3 DEF Acceptable, VerifyTransaction
<1> DEFINE T == {n \in 0..N : Chosen(n, f[n])}
<1>4. ASSUME NEW n \in 1..N, n - 1 \in T  PROVE n \in T
  <2>1. Chosen(n - 1, f[n - 1])
    BY <1>4
  <2>2. f[n] = Newer(f[n - 1], items[n], purchase, env)
    BY <1>2
  <2>3. CASE ~ Ok(n)
    <3>1. f[n] = f[n - 1]
      BY <2>2, <2>3 DEF Newer
    <3>2. CASE f[n - 1] = NoCandidate /\ \A k \in 1..(n - 1) : ~ Ok(k)
      BY <2>3, <3>1, <3>2
    <3>3. ASSUME NEW i \in 1..(n - 1), f[n - 1] = items[i],
                 NewestOf(items, n - 1, purchase, env, i)
          PROVE  Chosen(n, f[n])
      <4>1. i \in 1..n /\ NewestOf(items, n, purchase, env, i)
        BY <2>3, <3>3 DEF NewestOf
      <4>2. QED
        BY <3>1, <3>3, <4>1
    <3>4. QED
      BY <2>1, <3>2, <3>3
  <2>4. CASE Ok(n)
    <3>1. CASE f[n - 1] = NoCandidate /\ \A k \in 1..(n - 1) : ~ Ok(k)
      <4>1. f[n] = items[n]
        BY <2>2, <2>4, <3>1 DEF Newer
      <4>2. NewestOf(items, n, purchase, env, n)
        BY <2>4, <3>1 DEF NewestOf
      <4>3. QED
        BY <4>1, <4>2
    <3>2. ASSUME NEW i \in 1..(n - 1), f[n - 1] = items[i],
                 NewestOf(items, n - 1, purchase, env, i)
          PROVE  Chosen(n, f[n])
      <4>1. i \in 1..N /\ i \in 1..n /\ f[n - 1] # NoCandidate /\ Ok(i)
        BY <1>1, <3>2 DEF NewestOf
      <4>2. SignedDate(items[i]) \in Int /\ SignedDate(items[n]) \in Int
        BY <1>3, <2>4, <4>1
      <4>3. CASE SignedDate(items[n]) > SignedDate(items[i])
        <5>1. f[n] = items[n]
          BY <2>2, <2>4, <3>2, <4>3 DEF Newer, SignedDate
        <5>2. ASSUME NEW k \in 1..n, k # n, Ok(k)
              PROVE  SignedDate(items[k]) < SignedDate(items[n])
          <6>1. k \in 1..(n - 1) /\ k \in 1..N
            BY <5>2
          <6>2. SignedDate(items[k]) \in Int
            BY <1>3, <5>2, <6>1
          <6>3. k = i \/ SignedDate(items[k]) < SignedDate(items[i])
                     \/ SignedDate(items[k]) = SignedDate(items[i])
            BY <3>2, <5>2, <6>1 DEF NewestOf
          <6>4. QED
            BY <4>2, <4>3, <6>2, <6>3
        <5>3. NewestOf(items, n, purchase, env, n)
          BY <2>4, <5>2 DEF NewestOf
        <5>4. QED
          BY <5>1, <5>3
      <4>4. CASE ~ (SignedDate(items[n]) > SignedDate(items[i]))
        <5>1. f[n] = items[i]
          BY <2>2, <3>2, <4>1, <4>4 DEF Newer, SignedDate
        <5>2. \/ SignedDate(items[n]) < SignedDate(items[i])
              \/ /\ SignedDate(items[n]) = SignedDate(items[i])
                 /\ i < n
          BY <4>2, <4>4
        <5>3. NewestOf(items, n, purchase, env, i)
          BY <3>2, <5>2 DEF NewestOf
        <5>4. QED
          BY <4>1, <5>1, <5>3
      <4>5. QED
        BY <4>3, <4>4
    <3>3. QED
      BY <2>1, <3>1, <3>2
  <2>5. QED
    BY <2>3, <2>4
<1>5. Chosen(N, f[N])
  <2>1. 0 \in T
    BY <1>1, <1>2
  <2> HIDE DEF T
  <2>2. \A n \in 0..N : n \in T
    BY <1>1, <1>4, <2>1, Induction
  <2>3. QED
    BY <1>1, <2>2 DEF T
<1>6. CASE f[N] = NoCandidate /\ \A k \in 1..N : ~ Ok(k)
  BY <1>1, <1>2, <1>6 DEF Candidates
<1>7. ASSUME NEW i \in 1..N, f[N] = items[i], NewestOf(items, N, purchase, env, i)
      PROVE  /\ SelectedOf(items, purchase, env) = items[i]
             /\ Newest(items, purchase, env) = {i}
             /\ Acceptable(items[i], purchase, env)
  <2>1. Ok(i)
    BY <1>7 DEF NewestOf
  <2>2. i \in Newest(items, purchase, env)
    BY <1>1, <1>7 DEF NewestOf, Newest, Candidates
  <2>3. ASSUME NEW k \in Newest(items, purchase, env), k # i  PROVE FALSE
    <3>1. k \in 1..N /\ Ok(k)
      BY <1>1 DEF Newest, Candidates
    <3>2. \/ SignedDate(items[k]) < SignedDate(items[i])
          \/ SignedDate(items[k]) = SignedDate(items[i]) /\ i < k
      BY <1>7, <2>3, <3>1 DEF NewestOf
    <3>3. \/ SignedDate(items[i]) < SignedDate(items[k])
          \/ SignedDate(items[i]) = SignedDate(items[k]) /\ k < i
      BY <1>1, <2>1, <2>3 DEF Newest, Candidates
    <3>4. SignedDate(items[i]) \in Int /\ SignedDate(items[k]) \in Int
      BY <1>3, <2>1, <3>1
    <3>5. QED
      BY <1>1, <3>1, <3>2, <3>3, <3>4
  <2>4. QED
    BY <1>2, <1>7, <2>1, <2>2, <2>3
<1>8. QED
  BY <1>1, <1>2, <1>5, <1>6, <1>7
-----------------------------------------------------------------------------
(* What a response lists satisfies the assumption on items, in the order in  *)
(* which the loop reads it.                                                  *)
LEMMA ItemsRead ==
  ASSUME NEW r \in Responses
  PROVE  /\ FlattenSeq(r.response.groups) \in Seq(ItemsOf(r.response))
         /\ \A item \in ItemsOf(r.response) :
              /\ item # NoCandidate
              /\ Carries(item.transaction) /\ Carries(item.renewal)
              /\ item.transaction # NoToken => SignedDate(item) \in Int
BY InputsAssumption, FlattenSeqIsSeq DEF SignedDate

(* What reconciling comes to: the newest acceptable item if there is one and *)
(* it can be used, and otherwise no state at all.                            *)
LEMMA ReconcileSelects ==
  ASSUME NEW r \in Responses
  PROVE  LET items == FlattenSeq(r.response.groups)
             result == reconcileApplePurchase(r.response, r.purchase, r.env)
             Usable(item) == item.status \in 1..5 /\ VerifyRenewalInfo(item.renewal)
         IN  \/ /\ Newest(items, r.purchase, r.env) = {}
                /\ result.outcome # "ok"
             \/ \E i \in DOMAIN items :
                  /\ items[i] \in ItemsOf(r.response)
                  /\ Newest(items, r.purchase, r.env) = {i}
                  /\ Acceptable(items[i], r.purchase, r.env)
                  /\ IF Informs(r.response, r.env) /\ Usable(items[i])
                       THEN result = [outcome |-> "ok", purchase |-> r.purchase,
                                      status |-> mapAppleAPIStatus[items[i].status],
                                      expiresAt |-> items[i].transaction.payload.expiresAt]
                       ELSE result.outcome # "ok"
<1> DEFINE items == FlattenSeq(r.response.groups)
           selected == SelectedOf(items, r.purchase, r.env)
           result == reconcileApplePurchase(r.response, r.purchase, r.env)
           Usable(item) == item.status \in 1..5 /\ VerifyRenewalInfo(item.renewal)
           Refuses == \/ r.response.environment # "" /\ mapEnvironment(r.response.environment) # r.env
                      \/ selected = NoCandidate
                      \/ selected.status \notin DOMAIN mapAppleAPIStatus
                      \/ ~VerifyRenewalInfo(selected.renewal)
<1>1. /\ items \in Seq(ItemsOf(r.response))
      /\ \A item \in ItemsOf(r.response) :
           item # NoCandidate /\ (item.transaction # NoToken => SignedDate(item) \in Int)
  BY ItemsRead
<1>2. \A i \in DOMAIN items : items[i] \in ItemsOf(r.response)
  <2> HIDE DEF items
  <2>1. QED
    BY <1>1, LenProperties, ElementOfSeq
<1>3. \/ selected = NoCandidate /\ Candidates(items, r.purchase, r.env) = {}
      \/ \E i \in DOMAIN items : /\ selected = items[i]
                                /\ Newest(items, r.purchase, r.env) = {i}
                                /\ Acceptable(items[i], r.purchase, r.env)
  <2> HIDE DEF items
  <2>1. QED
    BY <1>1, SelectsNewest
<1>4. result = IF APIOutcome(r.response) # "ok"
                 THEN Reconciled(APIOutcome(r.response), r.purchase, "inactive", NoTime)
               ELSE IF Refuses THEN Reconciled("refused", r.purchase, "inactive", NoTime)
               ELSE Reconciled("ok", r.purchase, mapAppleAPIStatus[selected.status],
                               selected.transaction.payload.expiresAt)
  BY DEF reconcileApplePurchase, SelectedItem
<1>5. Informs(r.response, r.env) <=>
        /\ APIOutcome(r.response) = "ok"
        /\ ~ (r.response.environment # "" /\ mapEnvironment(r.response.environment) # r.env)
  <2>1. r.env = "production" \/ r.env = "sandbox"
    BY InputsAssumption DEF Environments
  <2>2. APIOutcome(r.response) = "ok" <=>
          /\ r.response.code \in 200..299 /\ r.response.decodes /\ r.response.groups # <<>>
    BY DEF APIOutcome
  <2>3. QED
    BY <2>1, <2>2 DEF Informs, mapEnvironment
<1> HIDE DEF items, selected, result
<1>6. CASE selected = NoCandidate /\ Candidates(items, r.purchase, r.env) = {}
  <2>1. result.outcome # "ok"
    BY <1>4, <1>6 DEF Reconciled
  <2>2. Newest(items, r.purchase, r.env) = {}
    BY <1>6 DEF Newest
  <2>3. QED
    BY <2>1, <2>2 DEF items, result
<1>7. ASSUME NEW i \in DOMAIN items, selected = items[i],
             Newest(items, r.purchase, r.env) = {i},
             Acceptable(items[i], r.purchase, r.env)
      PROVE  IF Informs(r.response, r.env) /\ Usable(items[i])
               THEN result = [outcome |-> "ok", purchase |-> r.purchase,
                              status |-> mapAppleAPIStatus[items[i].status],
                              expiresAt |-> items[i].transaction.payload.expiresAt]
               ELSE result.outcome # "ok"
  <2>1. items[i] # NoCandidate
    BY <1>1, <1>2
  <2>2. DOMAIN mapAppleAPIStatus = 1..5
    BY DEF mapAppleAPIStatus
  <2>3. APIOutcome(r.response) = "ok" => (Refuses <=> ~ (Informs(r.response, r.env) /\ Usable(items[i])))
    BY <1>5, <1>7, <2>1, <2>2
  <2> HIDE DEF Refuses, Usable
  <2>4. QED
    BY <1>4, <1>5, <1>7, <2>3 DEF Reconciled
<1>8. QED
  BY <1>2, <1>3, <1>6, <1>7 DEF items, result
-----------------------------------------------------------------------------
(* A decision is the one that the code takes of the input. *)
DecisionInvariant ==
  /\ input \in Notifications \cup Responses
  /\ decision # Undecided =>
       decision = IF input.kind = "notification"
                    THEN Disposition(input.outer, input.env)
                    ELSE reconcileApplePurchase(input.response, input.purchase, input.env)

(* No step changes what was asked. *)
LEMMA DecisionHolds == Spec => []DecisionInvariant
<1>1. Init => DecisionInvariant
  BY DEF Init, DecisionInvariant
<1>2. DecisionInvariant /\ [Next]_vars => DecisionInvariant'
  <2>1. SUFFICES ASSUME DecisionInvariant, [Next]_vars  PROVE DecisionInvariant'
    OBVIOUS
  <2>2. CASE DecideNotification
    BY <2>1, <2>2 DEF DecideNotification, DecisionInvariant
  <2>3. CASE DecideResponse
    BY <2>1, <2>3 DEF DecideResponse, DecisionInvariant
  <2>4. CASE UNCHANGED vars
    BY <2>1, <2>4 DEF vars, DecisionInvariant
  <2>5. QED
    BY <2>1, <2>2, <2>3, <2>4 DEF Next
<1>3. QED
  BY <1>1, <1>2, PTL DEF Spec

(* Kinds tell the inputs apart. *)
LEMMA InputKinds ==
  ASSUME DecisionInvariant
  PROVE  /\ input.kind = "notification" => input \in Notifications
         /\ input.kind = "response" => input \in Responses
BY InputsAssumption DEF DecisionInvariant

(* "Fail closed" (VER-01, ENV-01): the service acts on nothing that Apple's  *)
(* notification service has not signed, or that is for another environment,  *)
(* whatever chains, tokens, notifications and responses it is handed.        *)
THEOREM AppleFailsClosed == Spec => []FailsClosed
<1>1. DecisionInvariant => FailsClosed
  <2>1. SUFFICES ASSUME DecisionInvariant  PROVE FailsClosed
    OBVIOUS
  <2>2. ASSUME input.kind = "notification", decision \in {"recorded", "processed"}
        PROVE  LET payload == input.outer.payload
                   tx == payload.transaction
               IN  /\ Genuine(input.outer)
                   /\ tx # NoToken => Genuine(tx) /\ (payload.renewal # NoToken => Genuine(payload.renewal))
                   /\ decision = "processed" =>
                        tx # NoToken /\ mapEnvironment(tx.payload.environment) = input.env
    <3> DEFINE payload == input.outer.payload
               tx == payload.transaction
    <3>1. /\ input.outer # NoToken /\ Carries(input.outer)
          /\ Carries(tx) /\ Carries(payload.renewal)
      BY <2>1, <2>2, InputKinds, InputsAssumption
    <3>2. decision = Disposition(input.outer, input.env)
      BY <2>1, <2>2, InputsAssumption DEF DecisionInvariant
    <3>3. verifyJWS(input.outer) /\ (tx # NoToken => SignaturesHold(payload))
      <4>1. decision # "refused"
        BY <2>2
      <4>2. QED
        BY <3>2, <4>1 DEF Disposition
    <3>4. Genuine(input.outer)
      BY <3>1, <3>3, VerifiedIsGenuine DEF Carries
    <3>5. tx # NoToken => Genuine(tx) /\ (payload.renewal # NoToken => Genuine(payload.renewal))
      BY <3>1, <3>3, CarriedIsGenuine DEF SignaturesHold
    <3>6. decision = "processed" => tx # NoToken /\ InScope(tx, input.env)
      BY <3>2 DEF Disposition
    <3>7. QED
      BY <3>4, <3>5, <3>6 DEF InScope
  <2>3. ASSUME input.kind = "response", decision # Undecided, decision.outcome = "ok"
        PROVE  \E item \in ToSet(FlattenSeq(input.response.groups)) :
                 LET tx == item.transaction
                 IN  /\ tx # NoToken /\ Genuine(tx)
                     /\ tx.payload.purchase = input.purchase /\ tx.payload.ourBundle
                     /\ mapEnvironment(tx.payload.environment) = input.env
                     /\ tx.payload.expiresAt = decision.expiresAt
                     /\ item.renewal # NoToken => Genuine(item.renewal)
    <3> DEFINE items == FlattenSeq(input.response.groups)
    <3>1. input \in Responses
      BY <2>1, <2>3, InputKinds
    <3>2. decision = reconcileApplePurchase(input.response, input.purchase, input.env)
      BY <2>1, <2>3 DEF DecisionInvariant
    <3>3. PICK i \in DOMAIN items :
            /\ items[i] \in ItemsOf(input.response)
            /\ Acceptable(items[i], input.purchase, input.env)
            /\ VerifyRenewalInfo(items[i].renewal)
            /\ decision = [outcome |-> "ok", purchase |-> input.purchase,
                           status |-> mapAppleAPIStatus[items[i].status],
                           expiresAt |-> items[i].transaction.payload.expiresAt]
      BY <2>3, <3>1, <3>2, ReconcileSelects
    <3> HIDE DEF items
    <3>4. Carries(items[i].transaction) /\ Carries(items[i].renewal)
      BY <3>1, <3>3, ItemsRead
    <3>5. items[i].transaction # NoToken /\ Genuine(items[i].transaction)
      BY <3>3, <3>4, CarriedIsGenuine DEF Acceptable, VerifyTransaction
    <3>6. items[i].renewal # NoToken => Genuine(items[i].renewal)
      BY <3>3, <3>4, CarriedIsGenuine
    <3>7. items[i] \in ToSet(items)
      BY DEF ToSet
    <3>8. QED
      BY <3>3, <3>5, <3>6, <3>7 DEF Acceptable, items
  <2>4. QED
    BY <2>2, <2>3 DEF FailsClosed
<1>2. QED
  BY <1>1, DecisionHolds, PTL

(* reconcileApplePurchase takes the newest acceptable transaction of a       *)
(* response of any length, and falls back to no other when it cannot be used. *)
THEOREM AppleReconcileIsSelection == Spec => []ReconcileIsSelection
<1>1. DecisionInvariant => ReconcileIsSelection
  <2>1. SUFFICES ASSUME DecisionInvariant, input.kind = "response", decision # Undecided
                 PROVE  ReconcileIsSelection
    BY DEF ReconcileIsSelection
  <2> DEFINE items == FlattenSeq(input.response.groups)
             newest == Newest(items, input.purchase, input.env)
             chosen == {items[i] : i \in newest}
             usable == {item \in chosen : item.status \in 1..5 /\ VerifyRenewalInfo(item.renewal)}
  <2>2. input \in Responses
    BY <2>1, InputKinds
  <2>3. decision = reconcileApplePurchase(input.response, input.purchase, input.env)
    BY <2>1 DEF DecisionInvariant
  <2>4. IF Informs(input.response, input.env) /\ usable # {}
          THEN \E item \in usable :
                 decision = [outcome |-> "ok", purchase |-> input.purchase,
                             status |-> mapAppleAPIStatus[item.status],
                             expiresAt |-> item.transaction.payload.expiresAt]
          ELSE decision.outcome # "ok"
    <3>1. CASE newest = {} /\ decision.outcome # "ok"
      BY <3>1
    <3>2. ASSUME NEW i \in DOMAIN items, newest = {i},
                 IF /\ Informs(input.response, input.env)
                    /\ items[i].status \in 1..5 /\ VerifyRenewalInfo(items[i].renewal)
                   THEN decision = [outcome |-> "ok", purchase |-> input.purchase,
                                    status |-> mapAppleAPIStatus[items[i].status],
                                    expiresAt |-> items[i].transaction.payload.expiresAt]
                   ELSE decision.outcome # "ok"
          PROVE  <2>4!:
      <4> HIDE DEF items, newest
      <4>1. chosen = {items[i]}
        BY <3>2
      <4>2. usable = IF items[i].status \in 1..5 /\ VerifyRenewalInfo(items[i].renewal)
                       THEN {items[i]} ELSE {}
        BY <4>1
      <4> HIDE DEF chosen, usable
      <4>3. QED
        BY <3>2, <4>2
    <3>3. QED
      BY <2>2, <2>3, <3>1, <3>2, ReconcileSelects
  <2>5. QED
    BY <2>4 DEF ReconcileIsSelection
<1>2. QED
  BY <1>1, DecisionHolds, PTL
=============================================================================
