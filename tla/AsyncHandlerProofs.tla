------------------------ MODULE AsyncHandlerProofs ------------------------
(***************************************************************************)
(* What holds of the callback pairs of a session for any number of         *)
(* threads, requests and closes: that a pair is in one place for any use   *)
(* of the session, and that results find their own callbacks, once, for    *)
(* one that is used as it has to be (ProperUse).                           *)
(***************************************************************************)
EXTENDS AsyncHandler, SequenceTheorems, FiniteSetTheorems, TLAPS

(* Taking the i-th element out of a sequence.                              *)
LEMMA RemoveAtProperties ==
    ASSUME NEW S, NEW q \in Seq(S), NEW i \in 1 .. Len(q)
    PROVE  /\ RemoveAt(q, i) \in Seq(S)
           /\ Len(RemoveAt(q, i)) = Len(q) - 1
           /\ \A j \in 1 .. Len(q) - 1 :
                RemoveAt(q, i)[j] = IF j < i THEN q[j] ELSE q[j + 1]
<1> DEFINE a == SubSeq(q, 1, i - 1)
           b == SubSeq(q, i + 1, Len(q))
<1>0. Len(q) \in Nat /\ i \in Int /\ \A j \in 1 .. Len(q) : q[j] \in S
    BY LenProperties
<1>1. /\ a \in Seq(S) /\ Len(a) = i - 1
      /\ \A j \in 1 .. i - 1 : a[j] = q[j]
  <2>1. \A j \in 1 .. i - 1 : q[j] \in S
    BY <1>0
  <2>2. i - 1 \in Int /\ (IF 1 <= i - 1 THEN (i - 1) - 1 + 1 ELSE 0) = i - 1
    BY <1>0
  <2> QED
    BY <2>1, <2>2, SubSeqProperties
<1>2. /\ b \in Seq(S) /\ Len(b) = Len(q) - i
      /\ \A j \in 1 .. Len(q) - i : b[j] = q[i + j]
  <2>1. \A j \in i + 1 .. Len(q) : q[j] \in S
    BY <1>0
  <2>2. /\ i + 1 \in Int
        /\ (IF i + 1 <= Len(q) THEN Len(q) - (i + 1) + 1 ELSE 0) = Len(q) - i
    BY <1>0
  <2>3. /\ b \in Seq(S)
        /\ Len(b) = IF i + 1 <= Len(q) THEN Len(q) - (i + 1) + 1 ELSE 0
        /\ \A j \in 1 .. Len(q) - (i + 1) + 1 : b[j] = q[(i + 1) + j - 1]
    BY <1>0, <2>1, <2>2, SubSeqProperties
  <2> QED
    BY <1>0, <2>2, <2>3
<1> HIDE DEF a, b
<1>3. /\ a \o b \in Seq(S) /\ Len(a \o b) = Len(q) - 1
      /\ \A j \in 1 .. Len(q) - 1 :
            (a \o b)[j] = IF j <= i - 1 THEN a[j] ELSE b[j - (i - 1)]
  <2>1. /\ a \o b \in Seq(S) /\ Len(a \o b) = Len(a) + Len(b)
        /\ \A j \in 1 .. Len(a) + Len(b) :
              (a \o b)[j] = IF j <= Len(a) THEN a[j] ELSE b[j - Len(a)]
    BY <1>1, <1>2, ConcatProperties
  <2>2. Len(a) + Len(b) = Len(q) - 1
    BY <1>0, <1>1, <1>2
  <2> QED
    BY <1>1, <2>1, <2>2
<1>4. RemoveAt(q, i) = a \o b
    BY DEF RemoveAt, a, b
<1>5. ASSUME NEW j \in 1 .. Len(q) - 1
      PROVE  (a \o b)[j] = IF j < i THEN q[j] ELSE q[j + 1]
  <2>1. CASE j < i
    BY <2>1, <1>0, <1>1, <1>3
  <2>2. CASE ~(j < i)
    <3>1. j - (i - 1) \in 1 .. Len(q) - i /\ i + (j - (i - 1)) = j + 1
      <4> DEFINE n == Len(q)
      <4> SUFFICES ASSUME n \in Nat, j \in 1 .. n - 1, ~(j < i), i \in 1 .. n
                   PROVE  j - (i - 1) \in 1 .. n - i /\ i + (j - (i - 1)) = j + 1
        BY <2>2, <1>0
      <4> HIDE DEF n
      <4> QED
        OBVIOUS
    <3>2. b[j - (i - 1)] = q[i + (j - (i - 1))]
      BY <3>1, <1>2
    <3>3. ~(j <= i - 1)
      BY <2>2, <1>0
    <3>4. (a \o b)[j] = b[j - (i - 1)]
      BY <3>3, <1>3
    <3> QED
      BY <2>2, <3>1, <3>2, <3>4
  <2> QED
    BY <2>1, <2>2
<1> QED
    BY <1>3, <1>4, <1>5

(* Queues without duplicates keep their pairs apart when one pair is taken *)
(* out, pushed or popped, or when one queue is put behind another.         *)
LEMMA RemoveAtInjective ==
    ASSUME NEW S, NEW q \in Seq(S), NEW i \in 1 .. Len(q), IsInjective(q)
    PROVE  /\ IsInjective(RemoveAt(q, i))
           /\ Range(RemoveAt(q, i)) = Range(q) \ {q[i]}
           /\ q[i] \in Range(q)
<1> DEFINE r == RemoveAt(q, i)
<1>1. Len(q) \in Nat /\ DOMAIN q = 1 .. Len(q)
    BY LenProperties
<1>2. /\ r \in Seq(S) /\ Len(r) = Len(q) - 1
      /\ \A j \in 1 .. Len(q) - 1 : r[j] = IF j < i THEN q[j] ELSE q[j + 1]
    BY RemoveAtProperties
<1> HIDE DEF r
<1>3. DOMAIN r = 1 .. Len(q) - 1
    BY <1>2, LenProperties
<1>4. \A j, k \in 1 .. Len(q) : q[j] = q[k] => j = k
    BY <1>1 DEF IsInjective
<1>5. IsInjective(r)
    BY <1>1, <1>2, <1>3, <1>4 DEF IsInjective
<1>6. ASSUME NEW x \in Range(r)
      PROVE  x \in Range(q) \ {q[i]}
  <2>1. PICK j \in 1 .. Len(q) - 1 : x = r[j]
    BY <1>3 DEF Range
  <2>2. PICK k \in 1 .. Len(q) : x = q[k] /\ k # i
    <3>1. CASE j < i
      BY <2>1, <3>1, <1>1, <1>2
    <3>2. CASE ~(j < i)
      <4>1. j + 1 \in 1 .. Len(q) /\ x = q[j + 1] /\ j + 1 # i
        BY <2>1, <3>2, <1>1, <1>2
      <4> QED
        BY <4>1
    <3> QED
      BY <3>1, <3>2
  <2> QED
    BY <2>2, <1>1, <1>4 DEF Range
<1>7. ASSUME NEW x \in Range(q), x # q[i]
      PROVE  x \in Range(r)
  <2>1. PICK j \in 1 .. Len(q) : x = q[j]
    BY <1>1 DEF Range
  <2>2. CASE j < i
    <3>1. j \in 1 .. Len(q) - 1 /\ r[j] = x
      BY <2>1, <2>2, <1>1, <1>2
    <3> QED
      BY <3>1, <1>3 DEF Range
  <2>3. CASE j > i
    <3>1. j - 1 \in 1 .. Len(q) - 1 /\ r[j - 1] = x
      BY <2>1, <2>3, <1>1, <1>2
    <3> QED
      BY <3>1, <1>3 DEF Range
  <2> QED
    BY <2>1, <2>2, <2>3, <1>7, <1>1
<1>8. q[i] \in Range(q)
    BY <1>1 DEF Range
<1> QED
    BY <1>5, <1>6, <1>7, <1>8 DEF r

LEMMA ConcatInjective ==
    ASSUME NEW S, NEW q \in Seq(S), NEW r \in Seq(S),
           IsInjective(q), IsInjective(r), Range(q) \cap Range(r) = {}
    PROVE  /\ q \o r \in Seq(S)
           /\ IsInjective(q \o r)
           /\ Range(q \o r) = Range(q) \union Range(r)
<1>1. /\ Len(q) \in Nat /\ DOMAIN q = 1 .. Len(q)
      /\ Len(r) \in Nat /\ DOMAIN r = 1 .. Len(r)
    BY LenProperties
<1>2. /\ q \o r \in Seq(S) /\ Len(q \o r) = Len(q) + Len(r)
      /\ \A j \in 1 .. Len(q) + Len(r) :
            (q \o r)[j] = IF j <= Len(q) THEN q[j] ELSE r[j - Len(q)]
    BY ConcatProperties
<1>3. DOMAIN (q \o r) = 1 .. Len(q) + Len(r)
    BY <1>2, LenProperties
<1>4. Range(q \o r) = Range(q) \union Range(r)
    BY RangeConcatenation
<1>5. ASSUME NEW j \in 1 .. Len(q) + Len(r), NEW k \in 1 .. Len(q) + Len(r),
             (q \o r)[j] = (q \o r)[k]
      PROVE  j = k
  <2>1. CASE j <= Len(q) /\ k <= Len(q)
    BY <2>1, <1>5, <1>1, <1>2 DEF IsInjective
  <2>2. CASE ~(j <= Len(q)) /\ ~(k <= Len(q))
    <3>1. /\ j - Len(q) \in DOMAIN r /\ k - Len(q) \in DOMAIN r
          /\ r[j - Len(q)] = r[k - Len(q)]
      BY <2>2, <1>5, <1>1, <1>2
    <3> QED
      BY <3>1, <1>1 DEF IsInjective
  <2>3. CASE j <= Len(q) /\ ~(k <= Len(q))
    <3>1. j \in DOMAIN q /\ k - Len(q) \in DOMAIN r /\ q[j] = r[k - Len(q)]
      BY <2>3, <1>5, <1>1, <1>2
    <3> QED
      BY <3>1 DEF Range
  <2>4. CASE ~(j <= Len(q)) /\ k <= Len(q)
    <3>1. k \in DOMAIN q /\ j - Len(q) \in DOMAIN r /\ q[k] = r[j - Len(q)]
      BY <2>4, <1>5, <1>1, <1>2
    <3> QED
      BY <3>1 DEF Range
  <2> QED
    BY <2>1, <2>2, <2>3, <2>4
<1> QED
    BY <1>2, <1>3, <1>4, <1>5 DEF IsInjective

LEMMA SingletonInjective ==
    ASSUME NEW S, NEW p \in S
    PROVE  <<p>> \in Seq(S) /\ IsInjective(<<p>>) /\ Range(<<p>>) = {p}
BY DEF IsInjective, Range

LEMMA PushFrontInjective ==
    ASSUME NEW S, NEW q \in Seq(S), NEW p \in S,
           IsInjective(q), p \notin Range(q)
    PROVE  /\ <<p>> \o q \in Seq(S)
           /\ IsInjective(<<p>> \o q)
           /\ Range(<<p>> \o q) = Range(q) \union {p}
<1>1. <<p>> \in Seq(S) /\ IsInjective(<<p>>) /\ Range(<<p>>) = {p}
    BY SingletonInjective
<1>2. Range(<<p>>) \cap Range(q) = {}
    BY <1>1
<1> DEFINE h == <<p>>
<1> HIDE DEF h
<1>3. /\ h \in Seq(S) /\ IsInjective(h) /\ Range(h) = {p}
      /\ Range(h) \cap Range(q) = {}
    BY <1>1, <1>2 DEF h
<1>4. /\ h \o q \in Seq(S) /\ IsInjective(h \o q)
      /\ Range(h \o q) = Range(h) \union Range(q)
    BY <1>3, ConcatInjective
<1>5. Range(h \o q) = Range(q) \union {p}
    BY <1>3, <1>4
<1> QED
    BY <1>4, <1>5 DEF h

LEMMA PushBackInjective ==
    ASSUME NEW S, NEW q \in Seq(S), NEW p \in S,
           IsInjective(q), p \notin Range(q)
    PROVE  /\ Append(q, p) \in Seq(S)
           /\ IsInjective(Append(q, p))
           /\ Range(Append(q, p)) = Range(q) \union {p}
<1>1. <<p>> \in Seq(S) /\ IsInjective(<<p>>) /\ Range(<<p>>) = {p}
    BY SingletonInjective
<1>2. Range(q) \cap Range(<<p>>) = {}
    BY <1>1
<1> DEFINE h == <<p>>
<1> HIDE DEF h
<1>3. /\ h \in Seq(S) /\ IsInjective(h) /\ Range(h) = {p}
      /\ Range(q) \cap Range(h) = {}
    BY <1>1, <1>2 DEF h
<1>4. /\ q \o h \in Seq(S) /\ IsInjective(q \o h)
      /\ Range(q \o h) = Range(q) \union Range(h)
    BY <1>3, ConcatInjective
<1>5. Append(q, p) = q \o h
    BY AppendIsConcat DEF h
<1> QED
    BY <1>3, <1>4, <1>5

LEMMA PrefixInjective ==
    ASSUME NEW S, NEW q \in Seq(S), NEW n \in 0 .. Len(q), IsInjective(q)
    PROVE  /\ SubSeq(q, 1, n) \in Seq(S)
           /\ IsInjective(SubSeq(q, 1, n))
           /\ Range(SubSeq(q, 1, n)) \subseteq Range(q)
<1> DEFINE r == SubSeq(q, 1, n)
<1>1. Len(q) \in Nat /\ DOMAIN q = 1 .. Len(q) /\ n \in Nat /\ n <= Len(q)
    BY LenProperties
<1>2. /\ r \in Seq(S) /\ Len(r) = n
      /\ \A j \in 1 .. n : r[j] = q[j]
  <2>1. \A j \in 1 .. n : q[j] \in S
    BY <1>1
  <2>2. (IF 1 <= n THEN n - 1 + 1 ELSE 0) = n
    BY <1>1
  <2> QED
    BY <1>1, <2>1, <2>2, SubSeqProperties
<1> HIDE DEF r
<1>3. DOMAIN r = 1 .. n
    BY <1>2, LenProperties
<1>4. IsInjective(r)
    BY <1>1, <1>2, <1>3 DEF IsInjective
<1>5. Range(r) \subseteq Range(q)
    BY <1>1, <1>2, <1>3 DEF Range
<1> QED
    BY <1>2, <1>4, <1>5 DEF r

LEMMA PopFrontInjective ==
    ASSUME NEW S, NEW q \in Seq(S), q # <<>>, IsInjective(q)
    PROVE  /\ Tail(q) \in Seq(S)
           /\ IsInjective(Tail(q))
           /\ Range(Tail(q)) = Range(q) \ {Head(q)}
           /\ Head(q) \in Range(q) /\ Head(q) \in S
<1>1. /\ Tail(q) \in Seq(S) /\ Len(Tail(q)) = Len(q) - 1 /\ Head(q) \in S
      /\ \A i \in 1 .. Len(Tail(q)) : Tail(q)[i] = q[i + 1]
    BY HeadTailProperties
<1>2. /\ Len(q) \in Nat /\ Len(q) # 0 /\ DOMAIN q = 1 .. Len(q)
      /\ DOMAIN Tail(q) = 1 .. Len(q) - 1
    BY <1>1, LenProperties, EmptySeq
<1>3. Head(q) = q[1]
    BY <1>2
<1>4. \A j, k \in 1 .. Len(q) : q[j] = q[k] => j = k
    BY <1>2 DEF IsInjective
<1>5. IsInjective(Tail(q))
    BY <1>1, <1>2, <1>4 DEF IsInjective
<1>6. ASSUME NEW x \in Range(Tail(q))
      PROVE  x \in Range(q) \ {Head(q)}
  <2>1. PICK j \in 1 .. Len(q) - 1 : x = q[j + 1]
    BY <1>1, <1>2 DEF Range
  <2>2. j + 1 \in 1 .. Len(q) /\ j + 1 # 1
    BY <1>2
  <2> QED
    BY <2>1, <2>2, <1>2, <1>3, <1>4 DEF Range
<1>7. ASSUME NEW x \in Range(q), x # Head(q)
      PROVE  x \in Range(Tail(q))
  <2>1. PICK j \in 1 .. Len(q) : x = q[j]
    BY <1>2 DEF Range
  <2>2. j - 1 \in 1 .. Len(q) - 1 /\ Tail(q)[j - 1] = x
    BY <2>1, <1>1, <1>2, <1>3, <1>7
  <2> QED
    BY <2>2, <1>2 DEF Range
<1> QED
    BY <1>1, <1>2, <1>3, <1>5, <1>6, <1>7 DEF Range
----------------------------------------------------------------------------
(* What a step does not touch keeps its type.                              *)
LEMMA TypesUnchanged ==
    /\ HandlerType /\ UNCHANGED handlerVars => HandlerType'
    /\ ThreadType /\ UNCHANGED threadVars => ThreadType'
    /\ CleanType /\ UNCHANGED cleanVars => CleanType'
    /\ CoreType /\ UNCHANGED coreVars => CoreType'
    /\ CallType /\ UNCHANGED callVars /\ UNCHANGED made => CallType'
<1>1. HandlerType /\ UNCHANGED handlerVars => HandlerType'
    BY DEF HandlerType, handlerVars
<1>2. ThreadType /\ UNCHANGED threadVars => ThreadType'
    BY DEF ThreadType, threadVars, Sending
<1>3. CleanType /\ UNCHANGED cleanVars => CleanType'
    BY DEF CleanType, cleanVars
<1>4. CoreType /\ UNCHANGED coreVars => CoreType'
    BY DEF CoreType, coreVars
<1>5. CallType /\ UNCHANGED callVars /\ UNCHANGED made => CallType'
    BY DEF CallType, callVars
<1> QED
    BY <1>1, <1>2, <1>3, <1>4, <1>5

(* Init.                                                                   *)
LEMMA InitType == Init => TypeOK
<1> SUFFICES ASSUME Init
             PROVE  TypeOK
    OBVIOUS
<1>1. HandlerType
    BY ConstantsAssumption, EmptySeq DEF Init, HandlerType, Call, Pair
<1>2. ThreadType
    BY ConstantsAssumption DEF Init, ThreadType, Sending, NoHand
<1>3. CleanType
    BY EmptySeq DEF Init, CleanType
<1>4. CoreType
  <2>1. coreBatching \in BOOLEAN
    BY DEF Init
  <2>2. batchBuf \in Seq(Call) /\ wire \in Seq(Call)
    BY EmptySeq DEF Init
  <2>3. /\ conn \in {"up", "closing", "down"}
        /\ canceling \in Nat \union {-1} /\ closes \in 0 .. MaxCloses
    BY ConstantsAssumption DEF Init
  <2> QED
    BY <2>1, <2>2, <2>3 DEF CoreType
<1>5. CallType
    BY ConstantsAssumption DEF Init, CallType, Call, Id, Outcomes
<1> QED
    BY <1>1, <1>2, <1>3, <1>4, <1>5 DEF TypeOK

(* A thread that leaves SendRequest has nothing in hand.                   *)
LEMMA HandDropped ==
    ASSUME ThreadType, NEW t \in Threads,
           pc' = [pc EXCEPT ![t] = "idle"], hand' = [hand EXCEPT ![t] = NoHand]
    PROVE  /\ pc' \in [Threads -> {"idle", "prepared", "pushed", "failed",
                                   "committing", "aborting"}]
           /\ hand' \in [Threads -> [call : 0 .. MaxCalls, pair : 0 .. MaxCalls,
                                     batching : BOOLEAN]]
           /\ \A u \in Sending' : hand'[u].call \in Call /\ hand'[u].pair \in Pair
<1>1. pc' \in [Threads -> {"idle", "prepared", "pushed", "failed",
                           "committing", "aborting"}]
    BY DEF ThreadType
<1>2. hand' \in [Threads -> [call : 0 .. MaxCalls, pair : 0 .. MaxCalls,
                             batching : BOOLEAN]]
  <2>1. NoHand \in [call : 0 .. MaxCalls, pair : 0 .. MaxCalls, batching : BOOLEAN]
    BY ConstantsAssumption DEF NoHand
  <2> QED
    BY <2>1 DEF ThreadType
<1>3. ASSUME NEW u \in Sending'
      PROVE  hand'[u].call \in Call /\ hand'[u].pair \in Pair
  <2>1. u # t /\ u \in Sending /\ hand'[u] = hand[u]
    BY DEF ThreadType, Sending
  <2> QED
    BY <2>1 DEF ThreadType
<1> QED
    BY <1>1, <1>2, <1>3

(* The steps of SendRequest.                                               *)
LEMMA SendType ==
    ASSUME TypeOK, NEW t \in Threads, Send(t) \/ SendMute(t)
    PROVE  TypeOK'
<1>0. HandlerType /\ ThreadType /\ CleanType /\ CoreType /\ CallType
    BY DEF TypeOK
<1>1. ASSUME SendPrepare(t)
      PROVE  TypeOK'
  <2> DEFINE p == IF rrStack # <<>> THEN Head(rrStack) ELSE made + 1
  <2>1. calls' = calls + 1 /\ calls' \in Call
    <3>1. calls < MaxCalls /\ calls' = calls + 1
      BY <1>1 DEF SendPrepare
    <3> QED
      BY <1>0, <3>1, ConstantsAssumption DEF CallType, Call
  <2>2. p \in Pair /\ rrStack' \in Seq(Pair) /\ made' \in Nat /\ made' <= calls'
    <3>0. made \in Nat /\ calls \in Nat /\ made <= calls /\ rrStack \in Seq(Pair)
      BY <1>0, ConstantsAssumption DEF HandlerType, CallType
    <3>1. CASE rrStack # <<>>
      <4>1. Head(rrStack) \in Pair /\ Tail(rrStack) \in Seq(Pair)
        BY <3>0, <3>1, HeadTailProperties
      <4>2. rrStack' = Tail(rrStack) /\ made' = made
        BY <1>1, <3>1 DEF SendPrepare
      <4> QED
        BY <2>1, <3>0, <3>1, <4>1, <4>2
    <3>2. CASE rrStack = <<>>
      <4>1. rrStack' = rrStack /\ made' = made + 1
        BY <1>1, <3>2 DEF SendPrepare
      <4>2. made + 1 \in Pair
        BY <2>1, <3>0, ConstantsAssumption DEF Pair, Call
      <4> QED
        BY <2>1, <3>0, <3>2, <4>1, <4>2
    <3> QED
      BY <3>1, <3>2
  <2>3. HandlerType'
    BY <1>0, <1>1, <2>1, <2>2 DEF SendPrepare, HandlerType
  <2>4. ThreadType'
    <3>1. hand' = [hand EXCEPT ![t] =
                [call |-> calls', pair |-> p, batching |-> coreBatching]]
      BY <1>1 DEF SendPrepare
    <3>2. /\ [call |-> calls', pair |-> p, batching |-> coreBatching] \in
                [call : 0 .. MaxCalls, pair : 0 .. MaxCalls, batching : BOOLEAN]
      BY <1>0, <2>1, <2>2 DEF CoreType, Call, Pair
    <3> HIDE DEF p
    <3>3. \A u \in Sending' : hand'[u].call \in Call /\ hand'[u].pair \in Pair
      BY <1>0, <1>1, <2>1, <2>2, <3>1 DEF SendPrepare, ThreadType, Sending
    <3> QED
      BY <1>0, <1>1, <3>1, <3>2, <3>3 DEF SendPrepare, ThreadType
  <2>5. CallType'
    BY <1>0, <1>1, <2>1, <2>2 DEF SendPrepare, CallType, Call
  <2>6. UNCHANGED <<cleanVars, coreVars>>
    BY <1>1 DEF SendPrepare
  <2> QED
    BY <1>0, <2>3, <2>4, <2>5, <2>6, TypesUnchanged DEF TypeOK
<1>2. ASSUME SendPush(t)
      PROVE  TypeOK'
  <2>1. hand[t].pair \in Pair
    BY <1>0, <1>2 DEF SendPush, ThreadType, Sending
  <2>2. HandlerType'
    <3>1. /\ Append(vBatching, hand[t].pair) \in Seq(Pair)
          /\ Append(vCallback, hand[t].pair) \in Seq(Pair)
      BY <1>0, <2>1, AppendProperties DEF HandlerType
    <3> QED
      BY <1>0, <1>2, <3>1 DEF SendPush, HandlerType
  <2>3. ThreadType'
    <3>1. /\ csSend' = t /\ hand' = hand /\ batchers' = batchers
          /\ pc' = [pc EXCEPT ![t] = "pushed"] /\ t \in Sending
      BY <1>2 DEF SendPush, Sending
    <3>2. Sending' \subseteq Sending
      BY <1>0, <3>1 DEF ThreadType, Sending
    <3> QED
      BY <1>0, <3>1, <3>2 DEF ThreadType
  <2>4. UNCHANGED <<cleanVars, coreVars, callVars, made>>
    BY <1>2 DEF SendPush
  <2> QED
    BY <1>0, <2>2, <2>3, <2>4, TypesUnchanged DEF TypeOK
<1>3. ASSUME SendCore(t)
      PROVE  TypeOK'
  <2>1. hand[t].call \in Call
    BY <1>0, <1>3 DEF SendCore, ThreadType, Sending
  <2>2. CoreType'
    <3>0. batchBuf \in Seq(Call) /\ wire \in Seq(Call)
      BY <1>0 DEF CoreType
    <3>1. batchBuf' \in Seq(Call) /\ wire' \in Seq(Call)
      <4>1. /\ Append(batchBuf, hand[t].call) \in Seq(Call)
            /\ Append(wire, hand[t].call) \in Seq(Call)
        BY <2>1, <3>0, AppendProperties
      <4> QED
        BY <1>3, <3>0, <4>1 DEF SendCore, CoreSend
    <3>2. UNCHANGED <<conn, coreBatching, canceling, closes>>
      BY <1>3 DEF SendCore
    <3> QED
      BY <1>0, <3>1, <3>2 DEF CoreType
  <2>3. ThreadType'
    <3>1. csSend' = NoThread /\ batchers' = batchers
      BY <1>3 DEF SendCore
    <3>2. \/ pc' = [pc EXCEPT ![t] = "idle"] /\ hand' = [hand EXCEPT ![t] = NoHand]
          \/ /\ pc' = [pc EXCEPT ![t] = "failed"] /\ hand' = hand
             /\ pc[t] = "pushed"
      BY <1>3 DEF SendCore
    <3> QED
      BY <1>0, <3>1, <3>2, HandDropped DEF ThreadType, Sending
  <2>4. CallType'
    <3>1. UNCHANGED <<made, calls, idOf, outcome, got, fired>>
      BY <1>3 DEF SendCore, handlerVars
    <3>2. sent' \in SUBSET Call
      BY <1>0, <1>3, <2>1 DEF SendCore, CallType
    <3> QED
      BY <1>0, <3>1, <3>2 DEF CallType
  <2>5. UNCHANGED <<handlerVars, cleanVars>>
    BY <1>3 DEF SendCore
  <2> QED
    BY <1>0, <2>2, <2>3, <2>4, <2>5, TypesUnchanged DEF TypeOK
<1>4. ASSUME SendUndo(t)
      PROVE  TypeOK'
  <2>1. hand[t].pair \in Pair
    BY <1>0, <1>4 DEF SendUndo, ThreadType, Sending
  <2>2. ASSUME NEW q \in Seq(Pair), NEW qNext, RemovePair(q, qNext, hand[t].pair)
        PROVE  qNext \in Seq(Pair) /\ rrStack' \in Seq(Pair)
    <3>1. CASE hand[t].pair \notin Range(q) /\ qNext = q /\ UNCHANGED rrStack
      BY <1>0, <3>1 DEF HandlerType
    <3>2. ASSUME NEW i \in DOMAIN q, qNext = RemoveAt(q, i), Recycle(hand[t].pair)
          PROVE  qNext \in Seq(Pair) /\ rrStack' \in Seq(Pair)
      <4>1. i \in 1 .. Len(q)
        BY LenProperties
      <4>2. <<hand[t].pair>> \in Seq(Pair)
        BY <2>1
      <4> QED
        BY <1>0, <3>2, <4>1, <4>2, RemoveAtProperties, ConcatProperties
        DEF Recycle, HandlerType
    <3> QED
      BY <2>2, <3>1, <3>2 DEF RemovePair
  <2>3. HandlerType'
    BY <1>0, <1>4, <2>2 DEF SendUndo, HandlerType
  <2>4. ThreadType'
    BY <1>0, <1>4, HandDropped DEF SendUndo, ThreadType
  <2>5. UNCHANGED <<made, callVars, cleanVars, coreVars>>
    BY <1>4 DEF SendUndo
  <2> QED
    BY <1>0, <2>3, <2>4, <2>5, TypesUnchanged DEF TypeOK
<1>5. ASSUME SendMute(t)
      PROVE  TypeOK'
  <2>1. calls' = calls + 1 /\ calls' \in Call
    <3>1. calls < MaxCalls /\ calls' = calls + 1
      BY <1>5 DEF SendMute
    <3> QED
      BY <1>0, <3>1, ConstantsAssumption DEF CallType, Call
  <2>2. CoreType'
    <3>0. batchBuf \in Seq(Call) /\ wire \in Seq(Call)
      BY <1>0 DEF CoreType
    <3>1. batchBuf' \in Seq(Call) /\ wire' \in Seq(Call)
      <4>1. /\ Append(batchBuf, calls') \in Seq(Call)
            /\ Append(wire, calls') \in Seq(Call)
        BY <2>1, <3>0, AppendProperties
      <4> QED
        BY <1>5, <3>0, <4>1 DEF SendMute, CoreSend
    <3>2. UNCHANGED <<conn, coreBatching, canceling, closes>>
      BY <1>5 DEF SendMute
    <3> QED
      BY <1>0, <3>1, <3>2 DEF CoreType
  <2>3. CallType'
    <3>1. UNCHANGED <<made, idOf, outcome, got, fired>>
      BY <1>5 DEF SendMute, handlerVars
    <3>2. sent' \in SUBSET Call
      BY <1>0, <1>5, <2>1 DEF SendMute, CallType
    <3>3. calls' \in 0 .. MaxCalls /\ made' <= calls'
      BY <1>0, <2>1, <3>1 DEF CallType, HandlerType, Call
    <3> QED
      BY <1>0, <3>1, <3>2, <3>3 DEF CallType
  <2>4. UNCHANGED <<handlerVars, threadVars, cleanVars>>
    BY <1>5 DEF SendMute
  <2> QED
    BY <1>0, <2>2, <2>3, <2>4, TypesUnchanged DEF TypeOK
<1> QED
    BY <1>1, <1>2, <1>3, <1>4, <1>5 DEF Send

(* A thread that batches has nothing in hand.                              *)
LEMMA ThreadMoves ==
    ASSUME ThreadType, NEW t \in Threads, NEW x \in {"idle", "committing", "aborting"},
           pc' = [pc EXCEPT ![t] = x], UNCHANGED <<csSend, hand>>,
           batchers' \in SUBSET Threads
    PROVE  ThreadType'
<1>1. pc' \in [Threads -> {"idle", "prepared", "pushed", "failed",
                           "committing", "aborting"}]
    BY DEF ThreadType
<1>2. Sending' \subseteq Sending
    BY DEF ThreadType, Sending
<1> QED
    BY <1>1, <1>2 DEF ThreadType

(* Settling calls gives each of them one of the outcomes.                  *)
LEMMA SettleType ==
    ASSUME CallType, NEW q, NEW why \in Outcomes, Settle(q, why)
    PROVE  outcome' \in [Call -> Outcomes]
<1>1. outcome \in [Call -> Outcomes]
    BY DEF CallType
<1> QED
    BY <1>1 DEF Settle

(* Running the callbacks of a queue counts a natural number of them.       *)
LEMMA DiscardType ==
    ASSUME CallType, NEW q \in Seq(Pair), NEW why \in Outcomes, Discard(q, why)
    PROVE  outcome' \in [Call -> Outcomes] /\ fired' \in [Call -> Nat]
<1>1. outcome' \in [Call -> Outcomes]
    BY SettleType DEF Discard
<1> DEFINE N(c) == {i \in DOMAIN q : content[q[i]] = c}
<1>2. \A c : Cardinality(N(c)) \in Nat
  <2>1. IsFiniteSet(DOMAIN q)
    BY LenProperties, FS_Interval
  <2>2. \A c : IsFiniteSet(N(c))
    BY <2>1, FS_Subset
  <2> QED
    BY <2>2, FS_CardinalityType
<1>3. fired \in [Call -> Nat] /\ fired' = [c \in Call |-> fired[c] + Cardinality(N(c))]
    BY DEF CallType, Discard
<1> HIDE DEF N
<1>4. \A c \in Call : fired[c] + Cardinality(N(c)) \in Nat
    BY <1>2, <1>3
<1> QED
    BY <1>1, <1>3, <1>4

(* The steps of batching, and Cancel.                                      *)
LEMMA BatchType ==
    ASSUME TypeOK, NEW t \in Threads, Batch(t) \/ Cancel(t)
    PROVE  TypeOK'
<1>0. HandlerType /\ ThreadType /\ CleanType /\ CoreType /\ CallType
    BY DEF TypeOK
<1>1. ASSUME StartBatching(t)
      PROVE  TypeOK'
  <2>1. ThreadType'
    <3>1. UNCHANGED <<csSend, pc, hand>> /\ batchers' = batchers \union {t}
      BY <1>1 DEF StartBatching
    <3> QED
      BY <1>0, <3>1 DEF ThreadType, Sending
  <2>2. CoreType'
    <3>1. UNCHANGED <<conn, batchBuf, wire, canceling, closes>>
      BY <1>1 DEF StartBatching
    <3>2. coreBatching' \in BOOLEAN
      BY <1>1 DEF StartBatching
    <3> QED
      BY <1>0, <3>1, <3>2 DEF CoreType
  <2>3. UNCHANGED <<handlerVars, cleanVars, callVars, made>>
    BY <1>1 DEF StartBatching, handlerVars
  <2> QED
    BY <1>0, <2>1, <2>2, <2>3, TypesUnchanged DEF TypeOK
<1>2. ASSUME CommitBatchingMove(t)
      PROVE  TypeOK'
  <2>1. HandlerType'
    <3>1. vCallback \o vBatching \in Seq(Pair) /\ <<>> \in Seq(Pair)
      BY <1>0, ConcatProperties, EmptySeq DEF HandlerType
    <3> QED
      BY <1>0, <1>2, <3>1 DEF CommitBatchingMove, HandlerType
  <2>2. ThreadType'
    <3>1. /\ pc' = [pc EXCEPT ![t] = "committing"]
          /\ UNCHANGED <<csSend, hand, batchers>>
      BY <1>2 DEF CommitBatchingMove
    <3>2. batchers' \in SUBSET Threads
      BY <1>0, <3>1 DEF ThreadType
    <3> QED
      BY <1>0, <3>1, <3>2, ThreadMoves
  <2>3. UNCHANGED <<cleanVars, coreVars, callVars, made>>
    BY <1>2 DEF CommitBatchingMove
  <2> QED
    BY <1>0, <2>1, <2>2, <2>3, TypesUnchanged DEF TypeOK
<1>3. ASSUME CommitBatchingCore(t)
      PROVE  TypeOK'
  <2>1. CoreType'
    <3>1. wire' \in Seq(Call) /\ batchBuf' \in Seq(Call)
      <4>1. wire \o batchBuf \in Seq(Call) /\ <<>> \in Seq(Call)
        BY <1>0, ConcatProperties, EmptySeq DEF CoreType
      <4> QED
        BY <1>3, <4>1 DEF CommitBatchingCore
    <3>2. coreBatching' \in BOOLEAN
      BY <1>3 DEF CommitBatchingCore
    <3>3. UNCHANGED <<conn, canceling, closes>>
      BY <1>3 DEF CommitBatchingCore
    <3> QED
      BY <1>0, <3>1, <3>2, <3>3 DEF CoreType
  <2>2. ThreadType'
    <3>1. /\ pc' = [pc EXCEPT ![t] = "idle"]
          /\ UNCHANGED <<csSend, hand>> /\ batchers' = batchers \ {t}
      BY <1>3 DEF CommitBatchingCore
    <3>2. batchers' \in SUBSET Threads
      BY <1>0, <3>1 DEF ThreadType
    <3> QED
      BY <1>0, <3>1, <3>2, ThreadMoves
  <2>3. UNCHANGED <<handlerVars, cleanVars, callVars, made>>
    BY <1>3 DEF CommitBatchingCore, handlerVars
  <2> QED
    BY <1>0, <2>1, <2>2, <2>3, TypesUnchanged DEF TypeOK
<1>4. ASSUME AbortBatchingClean(t)
      PROVE  TypeOK'
  <2>1. HandlerType'
    <3>1. rrStack \o vBatching \in Seq(Pair) /\ <<>> \in Seq(Pair)
      BY <1>0, ConcatProperties, EmptySeq DEF HandlerType
    <3> QED
      BY <1>0, <1>4, <3>1 DEF AbortBatchingClean, HandlerType
  <2>2. ThreadType'
    <3>1. /\ pc' = [pc EXCEPT ![t] = "aborting"]
          /\ UNCHANGED <<csSend, hand, batchers>>
      BY <1>4 DEF AbortBatchingClean
    <3>2. batchers' \in SUBSET Threads
      BY <1>0, <3>1 DEF ThreadType
    <3> QED
      BY <1>0, <3>1, <3>2, ThreadMoves
  <2>3. CallType'
    <3>1. UNCHANGED <<made, calls, idOf, sent, got, fired>>
      BY <1>4 DEF AbortBatchingClean
    <3>2. outcome' \in [Call -> Outcomes]
      BY <1>0, <1>4, SettleType DEF AbortBatchingClean, Outcomes
    <3> QED
      BY <1>0, <3>1, <3>2 DEF CallType
  <2>4. UNCHANGED <<cleanVars, coreVars>>
    BY <1>4 DEF AbortBatchingClean
  <2> QED
    BY <1>0, <2>1, <2>2, <2>3, <2>4, TypesUnchanged DEF TypeOK
<1>5. ASSUME AbortBatchingCore(t)
      PROVE  TypeOK'
  <2>1. CoreType'
    <3>1. wire' = wire /\ batchBuf' \in Seq(Call)
      BY <1>5, EmptySeq DEF AbortBatchingCore
    <3>2. coreBatching' \in BOOLEAN
      BY <1>5 DEF AbortBatchingCore
    <3>3. UNCHANGED <<conn, canceling, closes>>
      BY <1>5 DEF AbortBatchingCore
    <3> QED
      BY <1>0, <3>1, <3>2, <3>3 DEF CoreType
  <2>2. ThreadType'
    <3>1. /\ pc' = [pc EXCEPT ![t] = "idle"]
          /\ UNCHANGED <<csSend, hand>> /\ batchers' = batchers \ {t}
      BY <1>5 DEF AbortBatchingCore
    <3>2. batchers' \in SUBSET Threads
      BY <1>0, <3>1 DEF ThreadType
    <3> QED
      BY <1>0, <3>1, <3>2, ThreadMoves
  <2>3. UNCHANGED <<handlerVars, cleanVars, callVars, made>>
    BY <1>5 DEF AbortBatchingCore, handlerVars
  <2> QED
    BY <1>0, <2>1, <2>2, <2>3, TypesUnchanged DEF TypeOK
<1>6. ASSUME Cancel(t)
      PROVE  TypeOK'
  <2>1. CoreType'
    <3>1. Len(wire) \in Nat
      BY <1>0, LenProperties DEF CoreType
    <3>2. UNCHANGED <<conn, coreBatching, batchBuf, wire, closes>>
      BY <1>6 DEF Cancel
    <3>3. canceling' \in Nat \union {-1}
      BY <1>6, <3>1 DEF Cancel
    <3> QED
      BY <1>0, <3>2, <3>3 DEF CoreType
  <2>2. UNCHANGED <<handlerVars, threadVars, cleanVars, callVars, made>>
    BY <1>6 DEF Cancel, handlerVars
  <2> QED
    BY <1>0, <2>1, <2>2, TypesUnchanged DEF TypeOK
<1> QED
    BY <1>1, <1>2, <1>3, <1>4, <1>5, <1>6 DEF Batch

(* Popping the pair of an answer.                                          *)
LEMMA AnswerType ==
    ASSUME TypeOK, NEW how \in {"result", "exception"}, Answer(how)
    PROVE  TypeOK'
<1>0. HandlerType /\ ThreadType /\ CleanType /\ CoreType /\ CallType
    BY DEF TypeOK
<1>1. PICK k \in DOMAIN wire :
        /\ RunCallback(wire[k], how) \/ NoCallback(wire[k])
        /\ wire' = RemoveAt(wire, k)
        /\ canceling' = IF k <= canceling THEN canceling - 1 ELSE canceling
    BY DEF Answer
<1>2. k \in 1 .. Len(wire) /\ wire[k] \in Call /\ wire \in Seq(Call)
    BY <1>0, LenProperties DEF CoreType
<1>3. UNCHANGED <<vBatching, made, content, threadVars, cleanVars, conn,
                  coreBatching, batchBuf, closes, calls, idOf, sent>>
    BY DEF Answer
<1>4. /\ vCallback' \in Seq(Pair) /\ rrStack' \in Seq(Pair)
      /\ outcome' \in [Call -> Outcomes] /\ got' \in [Call -> 0 .. MaxCalls]
      /\ fired' \in [Call -> Nat]
  <2>0. how \in Outcomes /\ "unheard" \in Outcomes
    BY DEF Outcomes
  <2>1. /\ vCallback \in Seq(Pair) /\ rrStack \in Seq(Pair)
        /\ outcome \in [Call -> Outcomes] /\ got \in [Call -> 0 .. MaxCalls]
        /\ fired \in [Call -> Nat]
    BY <1>0 DEF HandlerType, CallType
  <2>2. CASE NoCallback(wire[k])
    <3>1. UNCHANGED <<vCallback, got, fired, rrStack>>
      BY <2>2 DEF NoCallback
    <3>2. outcome' \in [Call -> Outcomes]
      BY <2>2, <2>0, <2>1, <1>2 DEF NoCallback
    <3> QED
      BY <2>1, <3>1, <3>2
  <2>3. CASE RunCallback(wire[k], how)
    <3>1. PICK i \in Matching(wire[k]) :
            /\ vCallback' = RemoveAt(vCallback, i)
            /\ outcome' = [outcome EXCEPT ![content[vCallback[i]]] = how]
            /\ got' = [got EXCEPT ![content[vCallback[i]]] = wire[k]]
            /\ fired' = [fired EXCEPT ![content[vCallback[i]]] = @ + 1]
            /\ Recycle(vCallback[i])
      BY <2>3 DEF RunCallback
    <3>2. i \in 1 .. Len(vCallback) /\ vCallback[i] \in Pair
      BY <2>1, LenProperties DEF Matching
    <3>3. vCallback' \in Seq(Pair)
      BY <2>1, <3>1, <3>2, RemoveAtProperties
    <3>4. rrStack' \in Seq(Pair)
      <4>1. <<vCallback[i]>> \in Seq(Pair)
        BY <3>2
      <4> QED
        BY <2>1, <3>1, <4>1, ConcatProperties DEF Recycle
    <3>5. outcome' \in [Call -> Outcomes]
      BY <2>0, <2>1, <3>1
    <3>6. wire[k] \in 0 .. MaxCalls
      BY <1>2 DEF Call
    <3>7. got' \in [Call -> 0 .. MaxCalls]
      BY <2>1, <3>1, <3>6
    <3>8. fired' \in [Call -> Nat]
      <4> DEFINE x == content[vCallback[i]]
      <4>1. fired \in [Call -> Nat] /\ fired' = [fired EXCEPT ![x] = fired[x] + 1]
        BY <2>1, <3>1
      <4> HIDE DEF x
      <4>2. x \in Call => fired[x] + 1 \in Nat
        BY <4>1
      <4> QED
        BY <4>1, <4>2
    <3> QED
      BY <3>3, <3>4, <3>5, <3>7, <3>8
  <2> QED
    BY <1>1, <2>2, <2>3
<1>5. HandlerType'
    BY <1>0, <1>3, <1>4 DEF HandlerType
<1>6. CoreType'
  <2>1. wire' \in Seq(Call)
    BY <1>1, <1>2, RemoveAtProperties
  <2>2. canceling' \in Nat \union {-1}
    <3>1. canceling \in Nat \union {-1} /\ k \in Nat /\ k >= 1
      BY <1>0, <1>2 DEF CoreType
    <3> QED
      BY <1>1, <3>1
  <2> QED
    BY <1>0, <1>3, <2>1, <2>2 DEF CoreType
<1>7. CallType'
    BY <1>0, <1>3, <1>4 DEF CallType
<1> QED
    BY <1>0, <1>3, <1>5, <1>6, <1>7, TypesUnchanged DEF TypeOK

(* Cleaning: the swapped queues take the pairs, then the pool does.        *)
LEMMA CleanSteps ==
    ASSUME TypeOK
    PROVE  /\ \A why \in {"closed", "canceled"} :
                CleanCallbacksSwap(why) /\ UNCHANGED <<rrStack, made, content>>
                    => HandlerType' /\ CleanType'
           /\ CleanCallbacksBatching => TypeOK'
           /\ CleanCallbacksWaiting => TypeOK'
<1>0. HandlerType /\ ThreadType /\ CleanType /\ CoreType /\ CallType
    BY DEF TypeOK
<1>1. <<>> \in Seq(Pair)
    BY EmptySeq
<1>2. cleaning # "no" => cleaning \in Outcomes
    BY <1>0 DEF CleanType, Outcomes
<1>3. rrStack \o sb0 \in Seq(Pair) /\ rrStack \o sb1 \in Seq(Pair)
    BY <1>0, ConcatProperties DEF HandlerType, CleanType
<1>4. ASSUME NEW why \in {"closed", "canceled"}, CleanCallbacksSwap(why),
             UNCHANGED <<rrStack, made, content>>
      PROVE  HandlerType' /\ CleanType'
  <2>1. HandlerType'
    BY <1>0, <1>1, <1>4 DEF CleanCallbacksSwap, HandlerType
  <2>2. CleanType'
    BY <1>0, <1>4 DEF CleanCallbacksSwap, HandlerType, CleanType
  <2> QED
    BY <2>1, <2>2
<1>5. ASSUME CleanCallbacksBatching
      PROVE  TypeOK'
  <2>1. HandlerType'
    BY <1>0, <1>3, <1>5 DEF CleanCallbacksBatching, HandlerType
  <2>2. CleanType'
    BY <1>0, <1>1, <1>5 DEF CleanCallbacksBatching, CleanType
  <2>3. CallType'
    <3>1. UNCHANGED <<made, calls, idOf, sent, got>>
      BY <1>5 DEF CleanCallbacksBatching
    <3>2. outcome' \in [Call -> Outcomes] /\ fired' \in [Call -> Nat]
      BY <1>0, <1>2, <1>5, DiscardType DEF CleanCallbacksBatching, CleanType
    <3> QED
      BY <1>0, <3>1, <3>2 DEF CallType
  <2>4. UNCHANGED <<threadVars, coreVars>>
    BY <1>5 DEF CleanCallbacksBatching
  <2> QED
    BY <1>0, <2>1, <2>2, <2>3, <2>4, TypesUnchanged DEF TypeOK
<1>6. ASSUME CleanCallbacksWaiting
      PROVE  TypeOK'
  <2>1. HandlerType'
    BY <1>0, <1>3, <1>6 DEF CleanCallbacksWaiting, HandlerType
  <2>2. CleanType'
    BY <1>0, <1>1, <1>6 DEF CleanCallbacksWaiting, CleanType
  <2>3. CallType'
    <3>1. UNCHANGED <<made, calls, idOf, sent, got>>
      BY <1>6 DEF CleanCallbacksWaiting
    <3>2. outcome' \in [Call -> Outcomes] /\ fired' \in [Call -> Nat]
      BY <1>0, <1>2, <1>6, DiscardType DEF CleanCallbacksWaiting, CleanType
    <3> QED
      BY <1>0, <3>1, <3>2 DEF CallType
  <2>4. UNCHANGED <<threadVars, coreVars>>
    BY <1>6 DEF CleanCallbacksWaiting
  <2> QED
    BY <1>0, <2>1, <2>2, <2>3, <2>4, TypesUnchanged DEF TypeOK
<1> QED
    BY <1>4, <1>5, <1>6

(* The worker thread, and the core on its own.                             *)
LEMMA WorkerType ==
    ASSUME TypeOK, Worker \/ CoreClose \/ Reconnect
    PROVE  TypeOK'
<1>0. HandlerType /\ ThreadType /\ CleanType /\ CoreType /\ CallType
    BY DEF TypeOK
<1>1. CASE OnRequestProcessed \/ OnServerException
    BY <1>1, AnswerType DEF OnRequestProcessed, OnServerException
<1>2. CASE CleanCallbacksBatching \/ CleanCallbacksWaiting
    BY <1>2, CleanSteps
<1>3. ASSUME OnCanceled
      PROVE  TypeOK'
  <2>1. HandlerType' /\ CleanType'
    BY <1>3, CleanSteps DEF OnCanceled
  <2>2. CoreType'
    <3>1. canceling \in Nat /\ wire \in Seq(Call) /\ Len(wire) \in Nat
      BY <1>0, <1>3, LenProperties DEF OnCanceled, CoreType
    <3>2. canceling + 1 \in Int /\ \A j \in canceling + 1 .. Len(wire) : wire[j] \in Call
      BY <3>1
    <3>3. SubSeq(wire, canceling + 1, Len(wire)) \in Seq(Call)
      BY <3>1, <3>2, SubSeqProperties
    <3>4. wire' \in Seq(Call) /\ canceling' \in Nat \union {-1}
      BY <1>3, <3>3 DEF OnCanceled
    <3>5. UNCHANGED <<conn, coreBatching, batchBuf, closes>>
      BY <1>3 DEF OnCanceled
    <3> QED
      BY <1>0, <3>4, <3>5 DEF CoreType
  <2>3. UNCHANGED <<threadVars, callVars, made>>
    BY <1>3 DEF OnCanceled
  <2> QED
    BY <1>0, <2>1, <2>2, <2>3, TypesUnchanged DEF TypeOK
<1>4. ASSUME OnSocketClosed
      PROVE  TypeOK'
  <2>1. HandlerType' /\ CleanType'
    BY <1>4, CleanSteps DEF OnSocketClosed
  <2>2. CoreType'
    <3>1. UNCHANGED <<coreBatching, batchBuf, wire, canceling, closes>>
      BY <1>4 DEF OnSocketClosed
    <3>2. conn' \in {"up", "closing", "down"}
      BY <1>4 DEF OnSocketClosed
    <3> QED
      BY <1>0, <3>1, <3>2 DEF CoreType
  <2>3. UNCHANGED <<threadVars, callVars, made>>
    BY <1>4 DEF OnSocketClosed
  <2> QED
    BY <1>0, <2>1, <2>2, <2>3, TypesUnchanged DEF TypeOK
<1>5. ASSUME CoreClose
      PROVE  TypeOK'
  <2>1. CoreType'
    <3>1. wire' \in Seq(Call) /\ batchBuf' \in Seq(Call)
      BY <1>5, EmptySeq DEF CoreClose
    <3>2. coreBatching' \in BOOLEAN
      BY <1>5 DEF CoreClose
    <3>3. conn' \in {"up", "closing", "down"} /\ canceling' = -1
      BY <1>5 DEF CoreClose
    <3>4. closes' \in 0 .. MaxCloses
      <4>1. closes < MaxCloses /\ closes' = closes + 1
        BY <1>5 DEF CoreClose
      <4> QED
        BY <1>0, <4>1, ConstantsAssumption DEF CoreType
    <3> QED
      BY <3>1, <3>2, <3>3, <3>4 DEF CoreType
  <2>2. UNCHANGED <<handlerVars, threadVars, cleanVars, callVars, made>>
    BY <1>5 DEF CoreClose, handlerVars
  <2> QED
    BY <1>0, <2>1, <2>2, TypesUnchanged DEF TypeOK
<1>6. ASSUME Reconnect
      PROVE  TypeOK'
  <2>1. CoreType'
    <3>1. UNCHANGED <<coreBatching, batchBuf, wire, canceling, closes>>
      BY <1>6 DEF Reconnect
    <3>2. conn' \in {"up", "closing", "down"}
      BY <1>6 DEF Reconnect
    <3> QED
      BY <1>0, <3>1, <3>2 DEF CoreType
  <2>2. UNCHANGED <<handlerVars, threadVars, cleanVars, callVars, made>>
    BY <1>6 DEF Reconnect, handlerVars
  <2> QED
    BY <1>0, <2>1, <2>2, TypesUnchanged DEF TypeOK
<1> QED
    BY <1>1, <1>2, <1>3, <1>4, <1>5, <1>6 DEF Worker

(* The pool gets smaller.                                                  *)
LEMMA ClearType ==
    ASSUME TypeOK, NEW n \in 0 .. Len(rrStack) - 1, ClearResultCallbackPool(n)
    PROVE  TypeOK'
<1>0. HandlerType /\ ThreadType /\ CleanType /\ CoreType /\ CallType
    BY DEF TypeOK
<1>1. HandlerType'
  <2>1. Len(rrStack) \in Nat /\ \A j \in 1 .. n : rrStack[j] \in Pair
    BY <1>0, LenProperties DEF HandlerType
  <2>2. SubSeq(rrStack, 1, n) \in Seq(Pair)
    BY <2>1, SubSeqProperties
  <2> QED
    BY <1>0, <2>2 DEF ClearResultCallbackPool, HandlerType
<1>2. UNCHANGED <<threadVars, cleanVars, coreVars, callVars, made>>
    BY DEF ClearResultCallbackPool
<1> QED
    BY <1>0, <1>1, <1>2, TypesUnchanged DEF TypeOK

(* A step of the session, or none.                                         *)
LEMMA NextType == TypeOK /\ [Next]_vars => TypeOK'
<1> SUFFICES ASSUME TypeOK, [Next]_vars
             PROVE  TypeOK'
    OBVIOUS
<1>1. ASSUME UNCHANGED vars
      PROVE  TypeOK'
  <2>1. UNCHANGED <<handlerVars, threadVars, cleanVars, coreVars, callVars, made>>
    BY <1>1 DEF vars, handlerVars
  <2> QED
    BY <2>1, TypesUnchanged DEF TypeOK
<1> QED
    BY <1>1, SendType, BatchType, WorkerType, ClearType DEF Next

(* Every state of a session, whatever its threads and the peer do, is of   *)
(* the types of AsyncHandler: no thread pushes a pair it does not have,    *)
(* and SendRequest never allocates more pairs than it was called.          *)
THEOREM TypeCorrect == Spec => []TypeOK
<1>1. Init => TypeOK
    BY InitType
<1>2. TypeOK /\ [Next]_vars => TypeOK'
    BY NextType
<1> QED
    BY <1>1, <1>2, PTL DEF Spec
----------------------------------------------------------------------------
(* The empty queue.                                                        *)
LEMMA EmptyInjective == IsInjective(<<>>) /\ Range(<<>>) = {}
BY DEF IsInjective, Range

(* Steps in which no thread takes a pair in hand or pushes it.             *)
LEMMA HeldStays ==
    ASSUME \A u \in Threads : pc'[u] = "prepared" <=> pc[u] = "prepared",
           \A u \in Threads : pc[u] = "prepared" => hand'[u] = hand[u]
    PROVE  Held' = Held /\ (HandsApart => HandsApart')
BY DEF Held, HandsApart

(* OnePlace is an invariant, given the types.                              *)
LEMMA InitOnePlace == Init => OnePlace
<1> SUFFICES ASSUME Init
             PROVE  OnePlace
    OBVIOUS
<1>1. QueuesInjective
    BY EmptyInjective DEF Init, QueuesInjective
<1>2. Held = {}
    BY DEF Init, Held
<1>3. HandsApart
    BY DEF Init, HandsApart
<1>4. PlacesApart /\ Allocated
    BY <1>2, EmptyInjective DEF Init, PlacesApart, Allocated
<1> QED
    BY <1>1, <1>3, <1>4 DEF OnePlace

LEMMA SendOnePlace ==
    ASSUME TypeOK, OnePlace, NEW t \in Threads, Send(t) \/ SendMute(t)
    PROVE  OnePlace'
<1>0. QueuesInjective /\ PlacesApart /\ HandsApart /\ Allocated
    BY DEF OnePlace
<1>t. /\ rrStack \in Seq(Pair) /\ vCallback \in Seq(Pair) /\ vBatching \in Seq(Pair)
      /\ made \in Nat
      /\ pc \in [Threads -> {"idle", "prepared", "pushed", "failed",
                             "committing", "aborting"}]
      /\ hand \in [Threads -> [call : 0 .. MaxCalls, pair : 0 .. MaxCalls,
                               batching : BOOLEAN]]
      /\ \A u \in Sending : hand[u].pair \in Pair
    BY DEF TypeOK, HandlerType, ThreadType
<1>1. ASSUME SendPrepare(t)
      PROVE  OnePlace'
  <2> DEFINE p == IF rrStack # <<>> THEN Head(rrStack) ELSE made + 1
  <2>1. UNCHANGED <<vCallback, vBatching, sb0, sb1>>
    BY <1>1 DEF SendPrepare, cleanVars
  <2>2. /\ IsInjective(rrStack') /\ Range(rrStack') = Range(rrStack) \ {p}
        /\ p \in Range(rrStack) \/ p = made + 1
        /\ p \in 1 .. made' /\ made' \in {made, made + 1}
    <3>1. CASE rrStack # <<>>
      <4>1. p = Head(rrStack) /\ rrStack' = Tail(rrStack) /\ made' = made
        BY <1>1, <3>1 DEF SendPrepare
      <4>2. /\ IsInjective(Tail(rrStack)) /\ Head(rrStack) \in Range(rrStack)
            /\ Range(Tail(rrStack)) = Range(rrStack) \ {Head(rrStack)}
        BY <1>0, <1>t, <3>1, PopFrontInjective DEF QueuesInjective
      <4>3. Head(rrStack) \in 1 .. made
        BY <1>0, <4>2 DEF Allocated
      <4> QED
        BY <4>1, <4>2, <4>3
    <3>2. CASE rrStack = <<>>
      <4>1. p = made + 1 /\ rrStack' = rrStack /\ made' = made + 1
        BY <1>1, <3>2 DEF SendPrepare
      <4>2. Range(rrStack) = {}
        BY <3>2, EmptyInjective
      <4>3. made + 1 \in 1 .. made + 1
        BY <1>t
      <4> QED
        BY <1>0, <4>1, <4>2, <4>3 DEF QueuesInjective
    <3> QED
      BY <3>1, <3>2
  <2>3. made + 1 \notin 1 .. made /\ 1 .. made \subseteq 1 .. made'
    BY <1>t, <2>2
  <2>4. p \notin Range(vCallback) \union Range(vBatching) \union Range(sb0)
            \union Range(sb1) \union Held
    BY <1>0, <2>2, <2>3 DEF PlacesApart, Allocated
  <2>5. /\ pc' = [pc EXCEPT ![t] = "prepared"] /\ pc[t] = "idle"
        /\ hand' = [hand EXCEPT ![t] =
                [call |-> calls', pair |-> p, batching |-> coreBatching]]
    BY <1>1 DEF SendPrepare, MaySend
  <2> HIDE DEF p
  <2>6. /\ hand'[t].pair = p /\ pc'[t] = "prepared"
        /\ \A u \in Threads : u # t => hand'[u] = hand[u] /\ pc'[u] = pc[u]
    BY <1>t, <2>5
  <2>7. Held' = Held \union {p}
    BY <2>5, <2>6 DEF Held
  <2>8. HandsApart'
    <3>1. \A u \in Threads : u # t /\ pc[u] = "prepared" => hand[u].pair # p
      BY <2>4 DEF Held
    <3> QED
      BY <1>0, <2>6, <3>1 DEF HandsApart
  <2>9. QueuesInjective'
    BY <1>0, <2>1, <2>2 DEF QueuesInjective
  <2>10. PlacesApart'
    BY <1>0, <2>1, <2>2, <2>4, <2>7 DEF PlacesApart
  <2>11. Allocated'
    BY <1>0, <2>1, <2>2, <2>3, <2>7 DEF Allocated
  <2> QED
    BY <2>8, <2>9, <2>10, <2>11 DEF OnePlace
<1>2. ASSUME SendPush(t)
      PROVE  OnePlace'
  <2> DEFINE p == hand[t].pair
  <2>1. UNCHANGED <<rrStack, made, hand, sb0, sb1>>
    BY <1>2 DEF SendPush, cleanVars
  <2>2. /\ pc[t] = "prepared" /\ pc' = [pc EXCEPT ![t] = "pushed"]
        /\ t \in Sending
    BY <1>2 DEF SendPush, Sending
  <2>3. p \in Pair /\ p \in Held
    BY <1>t, <2>2 DEF Held
  <2>4. Held' = Held \ {p} /\ HandsApart'
    <3>1. \A u \in Threads : pc'[u] = "prepared" <=> pc[u] = "prepared" /\ u # t
      BY <1>t, <2>2
    <3>2. \A u \in Threads : pc[u] = "prepared" /\ u # t => hand[u].pair # p
      BY <1>0, <2>2 DEF HandsApart
    <3> QED
      BY <1>0, <2>1, <3>1, <3>2 DEF Held, HandsApart
  <2>5. /\ IsInjective(Append(vBatching, p)) /\ IsInjective(Append(vCallback, p))
        /\ Range(Append(vBatching, p)) = Range(vBatching) \union {p}
        /\ Range(Append(vCallback, p)) = Range(vCallback) \union {p}
    <3>1. p \notin Range(vBatching) /\ p \notin Range(vCallback)
      BY <1>0, <2>3 DEF PlacesApart
    <3> HIDE DEF p
    <3> QED
      BY <1>0, <1>t, <2>3, <3>1, PushBackInjective DEF QueuesInjective
  <2>6. \/ vBatching' = Append(vBatching, p) /\ vCallback' = vCallback
        \/ vCallback' = Append(vCallback, p) /\ vBatching' = vBatching
    BY <1>2 DEF SendPush
  <2> HIDE DEF p
  <2>7. QueuesInjective'
    BY <1>0, <2>1, <2>5, <2>6 DEF QueuesInjective
  <2>8. PlacesApart'
    <3>1. UNCHANGED <<Range(rrStack), Range(sb0), Range(sb1)>>
      BY <2>1
    <3>2. CASE vBatching' = Append(vBatching, p) /\ vCallback' = vCallback
      <4>1. Range(vBatching') = Range(vBatching) \union {p}
            /\ Range(vCallback') = Range(vCallback)
        BY <2>5, <3>2
      <4> QED
        BY <1>0, <2>3, <2>4, <3>1, <4>1 DEF PlacesApart
    <3>3. CASE vCallback' = Append(vCallback, p) /\ vBatching' = vBatching
      <4>1. Range(vCallback') = Range(vCallback) \union {p}
            /\ Range(vBatching') = Range(vBatching)
        BY <2>5, <3>3
      <4> QED
        BY <1>0, <2>3, <2>4, <3>1, <4>1 DEF PlacesApart
    <3> QED
      BY <2>6, <3>2, <3>3
  <2>9. Allocated'
    <3>1. /\ UNCHANGED <<Range(rrStack), Range(sb0), Range(sb1), made>>
          /\ Range(vBatching') \subseteq Range(vBatching) \union {p}
          /\ Range(vCallback') \subseteq Range(vCallback) \union {p}
      <4>1. UNCHANGED <<Range(rrStack), Range(sb0), Range(sb1), made>>
        BY <2>1
      <4>2. CASE vBatching' = Append(vBatching, p) /\ vCallback' = vCallback
        BY <2>5, <4>1, <4>2
      <4>3. CASE vCallback' = Append(vCallback, p) /\ vBatching' = vBatching
        BY <2>5, <4>1, <4>3
      <4> QED
        BY <2>6, <4>2, <4>3
    <3>2. p \in 1 .. made
      BY <1>0, <2>3 DEF Allocated
    <3> QED
      BY <1>0, <2>4, <3>1, <3>2 DEF Allocated
  <2> QED
    BY <2>4, <2>7, <2>8, <2>9 DEF OnePlace
<1>3. ASSUME SendCore(t) \/ SendMute(t)
      PROVE  OnePlace'
  <2>1. UNCHANGED <<rrStack, vCallback, vBatching, made, sb0, sb1>>
    BY <1>3 DEF SendCore, SendMute, handlerVars, cleanVars
  <2>2. Held' = Held /\ HandsApart'
    <3>1. \/ UNCHANGED <<pc, hand>>
          \/ /\ pc[t] = "pushed"
             /\ \E x \in {"idle", "failed"} : pc' = [pc EXCEPT ![t] = x]
             /\ hand' = hand \/ hand' = [hand EXCEPT ![t] = NoHand]
      BY <1>3 DEF SendCore, SendMute, threadVars
    <3>2. \A u \in Threads : /\ pc'[u] = "prepared" <=> pc[u] = "prepared"
                             /\ pc[u] = "prepared" => hand'[u] = hand[u]
      BY <1>t, <3>1
    <3> QED
      BY <1>0, <3>2, HeldStays
  <2>3. QueuesInjective' /\ PlacesApart' /\ Allocated'
    BY <1>0, <2>1, <2>2 DEF QueuesInjective, PlacesApart, Allocated
  <2> QED
    BY <2>2, <2>3 DEF OnePlace
<1>4. ASSUME SendUndo(t)
      PROVE  OnePlace'
  <2>1. UNCHANGED <<made, sb0, sb1>>
    BY <1>4 DEF SendUndo, cleanVars
  <2>2. Held' = Held /\ HandsApart'
    <3>1. /\ pc[t] = "failed" /\ pc' = [pc EXCEPT ![t] = "idle"]
          /\ hand' = [hand EXCEPT ![t] = NoHand]
      BY <1>4 DEF SendUndo
    <3>2. \A u \in Threads : /\ pc'[u] = "prepared" <=> pc[u] = "prepared"
                             /\ pc[u] = "prepared" => hand'[u] = hand[u]
      BY <1>t, <3>1
    <3> QED
      BY <1>0, <3>2, HeldStays
  <2>3. ASSUME NEW q \in Seq(Pair), NEW qNext, RemovePair(q, qNext, hand[t].pair),
               IsInjective(q), Range(q) \cap Range(rrStack) = {}
        PROVE  /\ IsInjective(qNext) /\ IsInjective(rrStack')
               /\ \E D \in SUBSET Range(q) : /\ Range(qNext) = Range(q) \ D
                                             /\ Range(rrStack') = Range(rrStack) \union D
    <3>1. CASE qNext = q /\ UNCHANGED rrStack
      <4>1. {} \in SUBSET Range(q) /\ Range(qNext) = Range(q) \ {}
            /\ Range(rrStack') = Range(rrStack) \union {}
        BY <3>1
      <4> QED
        BY <1>0, <2>3, <3>1, <4>1 DEF QueuesInjective
    <3>2. CASE \E i \in DOMAIN q : /\ q[i] = hand[t].pair /\ qNext = RemoveAt(q, i)
                                   /\ Recycle(hand[t].pair)
      <4>1. PICK i \in DOMAIN q : /\ q[i] = hand[t].pair /\ qNext = RemoveAt(q, i)
                                  /\ Recycle(hand[t].pair)
        BY <3>2
      <4>2. i \in 1 .. Len(q) /\ q[i] \in Pair
        BY LenProperties
      <4>3. /\ IsInjective(qNext) /\ Range(qNext) = Range(q) \ {q[i]}
            /\ q[i] \in Range(q)
        BY <2>3, <4>1, <4>2, RemoveAtInjective
      <4>4. q[i] \notin Range(rrStack)
        BY <2>3, <4>3
      <4>5. /\ IsInjective(<<q[i]>> \o rrStack)
            /\ Range(<<q[i]>> \o rrStack) = Range(rrStack) \union {q[i]}
        BY <1>0, <1>t, <4>2, <4>4, PushFrontInjective DEF QueuesInjective
      <4>6. rrStack' = <<q[i]>> \o rrStack
        BY <4>1 DEF Recycle
      <4> QED
        BY <4>3, <4>5, <4>6
    <3> QED
      BY <2>3, <3>1, <3>2 DEF RemovePair
  <2>4. CASE hand[t].batching
    <3>1. RemovePair(vBatching, vBatching', hand[t].pair) /\ UNCHANGED vCallback
      BY <1>4, <2>4 DEF SendUndo
    <3>2. IsInjective(vBatching) /\ Range(vBatching) \cap Range(rrStack) = {}
      BY <1>0 DEF QueuesInjective, PlacesApart
    <3>3. /\ IsInjective(vBatching') /\ IsInjective(rrStack')
          /\ \E D \in SUBSET Range(vBatching) :
                /\ Range(vBatching') = Range(vBatching) \ D
                /\ Range(rrStack') = Range(rrStack) \union D
      BY <1>t, <2>3, <3>1, <3>2
    <3>4. QueuesInjective'
      BY <1>0, <2>1, <3>1, <3>3 DEF QueuesInjective
    <3>5. PlacesApart' /\ Allocated'
      BY <1>0, <2>1, <2>2, <3>1, <3>3 DEF PlacesApart, Allocated
    <3> QED
      BY <2>2, <3>4, <3>5 DEF OnePlace
  <2>5. CASE ~hand[t].batching
    <3>1. RemovePair(vCallback, vCallback', hand[t].pair) /\ UNCHANGED vBatching
      BY <1>4, <2>5 DEF SendUndo
    <3>2. IsInjective(vCallback) /\ Range(vCallback) \cap Range(rrStack) = {}
      BY <1>0 DEF QueuesInjective, PlacesApart
    <3>3. /\ IsInjective(vCallback') /\ IsInjective(rrStack')
          /\ \E D \in SUBSET Range(vCallback) :
                /\ Range(vCallback') = Range(vCallback) \ D
                /\ Range(rrStack') = Range(rrStack) \union D
      BY <1>t, <2>3, <3>1, <3>2
    <3>4. QueuesInjective'
      BY <1>0, <2>1, <3>1, <3>3 DEF QueuesInjective
    <3>5. PlacesApart' /\ Allocated'
      BY <1>0, <2>1, <2>2, <3>1, <3>3 DEF PlacesApart, Allocated
    <3> QED
      BY <2>2, <3>4, <3>5 DEF OnePlace
  <2> QED
    BY <2>4, <2>5
<1> QED
    BY <1>1, <1>2, <1>3, <1>4 DEF Send

LEMMA BatchOnePlace ==
    ASSUME TypeOK, OnePlace, NEW t \in Threads, Batch(t) \/ Cancel(t)
    PROVE  OnePlace'
<1>0. QueuesInjective /\ PlacesApart /\ HandsApart /\ Allocated
    BY DEF OnePlace
<1>t. /\ rrStack \in Seq(Pair) /\ vCallback \in Seq(Pair) /\ vBatching \in Seq(Pair)
      /\ pc \in [Threads -> {"idle", "prepared", "pushed", "failed",
                             "committing", "aborting"}]
    BY DEF TypeOK, HandlerType, ThreadType
<1>h. Held' = Held /\ HandsApart'
  <2>1. /\ hand' = hand
        /\ \/ pc' = pc
           \/ /\ pc[t] \in {"idle", "committing", "aborting"}
              /\ \E x \in {"idle", "committing", "aborting"} :
                    pc' = [pc EXCEPT ![t] = x]
    BY DEF Batch, StartBatching, CommitBatchingMove, CommitBatchingCore,
           AbortBatchingClean, AbortBatchingCore, Cancel, threadVars
  <2>2. \A u \in Threads : /\ pc'[u] = "prepared" <=> pc[u] = "prepared"
                           /\ pc[u] = "prepared" => hand'[u] = hand[u]
    BY <1>t, <2>1
  <2> QED
    BY <1>0, <2>2, HeldStays
<1>1. CASE StartBatching(t) \/ CommitBatchingCore(t) \/ AbortBatchingCore(t) \/ Cancel(t)
  <2>1. UNCHANGED <<rrStack, vCallback, vBatching, made, sb0, sb1>>
    BY <1>1 DEF StartBatching, CommitBatchingCore, AbortBatchingCore, Cancel,
                handlerVars, cleanVars
  <2>2. QueuesInjective' /\ PlacesApart' /\ Allocated'
    BY <1>0, <1>h, <2>1 DEF QueuesInjective, PlacesApart, Allocated
  <2> QED
    BY <1>h, <2>2 DEF OnePlace
<1>2. CASE CommitBatchingMove(t)
  <2>1. /\ UNCHANGED <<rrStack, made, sb0, sb1>>
        /\ vCallback' = vCallback \o vBatching /\ vBatching' = <<>>
    BY <1>2 DEF CommitBatchingMove, cleanVars
  <2>2. IsInjective(vBatching') /\ Range(vBatching') = {}
    BY <2>1, EmptyInjective
  <2>3. /\ IsInjective(vCallback \o vBatching)
        /\ Range(vCallback \o vBatching) = Range(vCallback) \union Range(vBatching)
    <3>1. Range(vCallback) \cap Range(vBatching) = {}
      BY <1>0 DEF PlacesApart
    <3> QED
      BY <1>0, <1>t, <3>1, ConcatInjective DEF QueuesInjective
  <2>4. QueuesInjective'
    BY <1>0, <2>1, <2>2, <2>3 DEF QueuesInjective
  <2>5. PlacesApart' /\ Allocated'
    BY <1>0, <1>h, <2>1, <2>2, <2>3 DEF PlacesApart, Allocated
  <2> QED
    BY <1>h, <2>4, <2>5 DEF OnePlace
<1>3. CASE AbortBatchingClean(t)
  <2>1. /\ UNCHANGED <<vCallback, made, sb0, sb1>>
        /\ rrStack' = rrStack \o vBatching /\ vBatching' = <<>>
    BY <1>3 DEF AbortBatchingClean, cleanVars
  <2>2. IsInjective(vBatching') /\ Range(vBatching') = {}
    BY <2>1, EmptyInjective
  <2>3. /\ IsInjective(rrStack \o vBatching)
        /\ Range(rrStack \o vBatching) = Range(rrStack) \union Range(vBatching)
    <3>1. Range(rrStack) \cap Range(vBatching) = {}
      BY <1>0 DEF PlacesApart
    <3> QED
      BY <1>0, <1>t, <3>1, ConcatInjective DEF QueuesInjective
  <2>4. QueuesInjective'
    BY <1>0, <2>1, <2>2, <2>3 DEF QueuesInjective
  <2>5. PlacesApart' /\ Allocated'
    BY <1>0, <1>h, <2>1, <2>2, <2>3 DEF PlacesApart, Allocated
  <2> QED
    BY <1>h, <2>4, <2>5 DEF OnePlace
<1> QED
    BY <1>1, <1>2, <1>3 DEF Batch

LEMMA WorkerOnePlace ==
    ASSUME TypeOK, OnePlace, Worker \/ CoreClose \/ Reconnect
    PROVE  OnePlace'
<1>0. QueuesInjective /\ PlacesApart /\ HandsApart /\ Allocated
    BY DEF OnePlace
<1>t. /\ rrStack \in Seq(Pair) /\ vCallback \in Seq(Pair)
      /\ sb0 \in Seq(Pair) /\ sb1 \in Seq(Pair)
    BY DEF TypeOK, HandlerType, CleanType
<1>h. Held' = Held /\ HandsApart' /\ made' = made
  <2>1. UNCHANGED <<pc, hand, made>>
    BY DEF Worker, OnRequestProcessed, OnServerException, Answer, OnCanceled,
           OnSocketClosed, CleanCallbacksBatching, CleanCallbacksWaiting,
           CoreClose, Reconnect, threadVars, handlerVars
  <2> QED
    BY <1>0, <2>1, HeldStays
<1>1. ASSUME NEW how, Answer(how)
      PROVE  OnePlace'
  <2>1. UNCHANGED <<vBatching, sb0, sb1>>
    BY <1>1 DEF Answer, cleanVars
  <2>2. PICK k \in DOMAIN wire : RunCallback(wire[k], how) \/ NoCallback(wire[k])
    BY <1>1 DEF Answer
  <2>3. CASE NoCallback(wire[k])
    <3>1. UNCHANGED <<vCallback, rrStack>>
      BY <2>3 DEF NoCallback
    <3>2. QueuesInjective' /\ PlacesApart' /\ Allocated'
      BY <1>0, <1>h, <2>1, <3>1 DEF QueuesInjective, PlacesApart, Allocated
    <3> QED
      BY <1>h, <3>2 DEF OnePlace
  <2>4. CASE RunCallback(wire[k], how)
    <3>1. PICK i \in Matching(wire[k]) :
            vCallback' = RemoveAt(vCallback, i) /\ Recycle(vCallback[i])
      BY <2>4 DEF RunCallback
    <3> DEFINE p == vCallback[i]
    <3>2. i \in 1 .. Len(vCallback) /\ p \in Pair
      BY <1>t, LenProperties DEF Matching
    <3>3. /\ IsInjective(vCallback') /\ Range(vCallback') = Range(vCallback) \ {p}
          /\ p \in Range(vCallback)
      BY <1>0, <1>t, <3>1, <3>2, RemoveAtInjective DEF QueuesInjective
    <3>4. p \notin Range(rrStack)
      BY <1>0, <3>3 DEF PlacesApart
    <3>5. rrStack' = <<p>> \o rrStack
      BY <3>1 DEF Recycle
    <3> HIDE DEF p
    <3>6. /\ IsInjective(rrStack') /\ Range(rrStack') = Range(rrStack) \union {p}
      BY <1>0, <1>t, <3>2, <3>4, <3>5, PushFrontInjective DEF QueuesInjective
    <3>7. QueuesInjective'
      BY <1>0, <2>1, <3>3, <3>6 DEF QueuesInjective
    <3>8. PlacesApart'
      BY <1>0, <1>h, <2>1, <3>3, <3>6 DEF PlacesApart
    <3>9. Allocated'
      BY <1>0, <1>h, <2>1, <3>3, <3>6 DEF Allocated
    <3> QED
      BY <1>h, <3>7, <3>8, <3>9 DEF OnePlace
  <2> QED
    BY <2>2, <2>3, <2>4
<1>2. CASE OnCanceled \/ OnSocketClosed
  <2>1. /\ sb0' = vBatching /\ vBatching' = <<>>
        /\ sb1' = vCallback /\ vCallback' = <<>> /\ rrStack' = rrStack
    BY <1>2 DEF OnCanceled, OnSocketClosed, CleanCallbacksSwap
  <2>2. /\ IsInjective(vBatching') /\ Range(vBatching') = {}
        /\ IsInjective(vCallback') /\ Range(vCallback') = {}
    BY <2>1, EmptyInjective
  <2>3. QueuesInjective'
    BY <1>0, <2>1, <2>2 DEF QueuesInjective
  <2>4. PlacesApart' /\ Allocated'
    BY <1>0, <1>h, <2>1, <2>2 DEF PlacesApart, Allocated
  <2> QED
    BY <1>h, <2>3, <2>4 DEF OnePlace
<1>3. CASE CleanCallbacksBatching
  <2>1. /\ UNCHANGED <<vCallback, vBatching, sb1>>
        /\ rrStack' = rrStack \o sb0 /\ sb0' = <<>>
    BY <1>3 DEF CleanCallbacksBatching
  <2>2. IsInjective(sb0') /\ Range(sb0') = {}
    BY <2>1, EmptyInjective
  <2>3. /\ IsInjective(rrStack \o sb0)
        /\ Range(rrStack \o sb0) = Range(rrStack) \union Range(sb0)
    <3>1. Range(rrStack) \cap Range(sb0) = {}
      BY <1>0 DEF PlacesApart
    <3> QED
      BY <1>0, <1>t, <3>1, ConcatInjective DEF QueuesInjective
  <2>4. QueuesInjective'
    BY <1>0, <2>1, <2>2, <2>3 DEF QueuesInjective
  <2>5. PlacesApart' /\ Allocated'
    BY <1>0, <1>h, <2>1, <2>2, <2>3 DEF PlacesApart, Allocated
  <2> QED
    BY <1>h, <2>4, <2>5 DEF OnePlace
<1>4. CASE CleanCallbacksWaiting
  <2>1. /\ UNCHANGED <<vCallback, vBatching, sb0>>
        /\ rrStack' = rrStack \o sb1 /\ sb1' = <<>>
    BY <1>4 DEF CleanCallbacksWaiting
  <2>2. IsInjective(sb1') /\ Range(sb1') = {}
    BY <2>1, EmptyInjective
  <2>3. /\ IsInjective(rrStack \o sb1)
        /\ Range(rrStack \o sb1) = Range(rrStack) \union Range(sb1)
    <3>1. Range(rrStack) \cap Range(sb1) = {}
      BY <1>0 DEF PlacesApart
    <3> QED
      BY <1>0, <1>t, <3>1, ConcatInjective DEF QueuesInjective
  <2>4. QueuesInjective'
    BY <1>0, <2>1, <2>2, <2>3 DEF QueuesInjective
  <2>5. PlacesApart' /\ Allocated'
    BY <1>0, <1>h, <2>1, <2>2, <2>3 DEF PlacesApart, Allocated
  <2> QED
    BY <1>h, <2>4, <2>5 DEF OnePlace
<1>5. CASE CoreClose \/ Reconnect
  <2>1. UNCHANGED <<rrStack, vCallback, vBatching, sb0, sb1>>
    BY <1>5 DEF CoreClose, Reconnect, handlerVars, cleanVars
  <2>2. QueuesInjective' /\ PlacesApart' /\ Allocated'
    BY <1>0, <1>h, <2>1 DEF QueuesInjective, PlacesApart, Allocated
  <2> QED
    BY <1>h, <2>2 DEF OnePlace
<1> QED
    BY <1>1, <1>2, <1>3, <1>4, <1>5 DEF Worker, OnRequestProcessed, OnServerException

LEMMA ClearOnePlace ==
    ASSUME TypeOK, OnePlace, NEW n \in 0 .. Len(rrStack) - 1,
           ClearResultCallbackPool(n)
    PROVE  OnePlace'
<1>0. QueuesInjective /\ PlacesApart /\ HandsApart /\ Allocated
    BY DEF OnePlace
<1>1. rrStack \in Seq(Pair) /\ n \in 0 .. Len(rrStack)
    BY LenProperties DEF TypeOK, HandlerType
<1>2. /\ rrStack' = SubSeq(rrStack, 1, n)
      /\ UNCHANGED <<vCallback, vBatching, made, sb0, sb1, pc, hand>>
    BY DEF ClearResultCallbackPool, threadVars, cleanVars
<1>3. IsInjective(rrStack') /\ Range(rrStack') \subseteq Range(rrStack)
    BY <1>0, <1>1, <1>2, PrefixInjective DEF QueuesInjective
<1>4. Held' = Held /\ HandsApart'
    BY <1>0, <1>2, HeldStays
<1>5. QueuesInjective'
    BY <1>0, <1>2, <1>3 DEF QueuesInjective
<1>6. PlacesApart' /\ Allocated'
    BY <1>0, <1>2, <1>3, <1>4 DEF PlacesApart, Allocated
<1> QED
    BY <1>4, <1>5, <1>6 DEF OnePlace

LEMMA NextOnePlace == TypeOK /\ OnePlace /\ [Next]_vars => OnePlace'
<1> SUFFICES ASSUME TypeOK, OnePlace, [Next]_vars
             PROVE  OnePlace'
    OBVIOUS
<1>1. ASSUME UNCHANGED vars
      PROVE  OnePlace'
  <2>1. UNCHANGED <<rrStack, vCallback, vBatching, made, sb0, sb1, pc, hand>>
    BY <1>1 DEF vars, handlerVars, threadVars, cleanVars
  <2>2. Held' = Held /\ HandsApart'
    BY <2>1, HeldStays DEF OnePlace
  <2>3. QueuesInjective' /\ PlacesApart' /\ Allocated'
    BY <2>1, <2>2 DEF OnePlace, QueuesInjective, PlacesApart, Allocated
  <2> QED
    BY <2>2, <2>3 DEF OnePlace
<1> QED
    BY <1>1, SendOnePlace, BatchOnePlace, WorkerOnePlace, ClearOnePlace DEF Next

(* A callback pair of a session is never in two places, for any number of  *)
(* threads, whether or not they share a batch, cancel while they send, or  *)
(* race with a reconnection: what goes wrong then is which request a pair  *)
(* belongs to, never that m_rrStack hands one pair to two requests.        *)
THEOREM PairsInOnePlace == Spec => []OnePlace
<1>1. Init => TypeOK /\ OnePlace
    BY InitType, InitOnePlace
<1>2. (TypeOK /\ OnePlace) /\ [Next]_vars => (TypeOK /\ OnePlace)'
    BY NextType, NextOnePlace
<1> QED
    BY <1>1, <1>2, PTL DEF Spec
----------------------------------------------------------------------------
(* Which request a pair belongs to.  From here on the session is used as   *)
(* it has to be: the service answers in order, only the thread that        *)
(* batches sends meanwhile, nobody sends between a Cancel and its answer,  *)
(* and the core does not reconnect in the middle of SendRequest.           *)
ProperUse == ~Random /\ Exclusive /\ PatientReconnect /\ QuietCancel

(* The pairs that hold a call: queued ones and those in hand.              *)
Queued == Range(vCallback) \union Range(vBatching) \union Range(sb0) \union Range(sb1)
InUse  == Queued \union Held

(* Each holds a call of its own that is not settled yet ...                *)
ContentsFit ==
    /\ \A p \in InUse : /\ content[p] \in 1 .. calls /\ HasCallback(content[p])
                        /\ outcome[content[p]] = "none"
    /\ \A p, q \in InUse : content[p] = content[q] => p = q
    /\ sent \subseteq 1 .. calls
    /\ \A c \in Call : c > calls => outcome[c] = "none"

(* ... and a call that was sent has one until it is settled.               *)
CallsKept ==
    /\ \A c \in sent : HasCallback(c) /\ outcome[c] = "none" =>
            \E p \in Queued : content[p] = c
    /\ \A c \in Call : outcome[c] # "unheard"

(* The swapped queues are empty once CleanCallbacks is through.            *)
CleanFits == cleaning = "no" => sb0 = <<>> /\ sb1 = <<>>

(* The threads inside SendRequest.                                         *)
HandFits(t) ==
    /\ hand[t].call \in 1 .. calls /\ hand[t].call \notin sent
    /\ \A u \in Sending : hand[u].call = hand[t].call => u = t
    /\ pc[t] = "prepared" => content[hand[t].pair] = hand[t].call
    /\ pc[t] = "pushed" => csSend = t
    /\ pc[t] = "failed" => conn # "up"
    /\ pc[t] \in {"pushed", "failed"} => content[hand[t].pair] \notin sent

HandsFit == \A t \in Sending : HandFits(t)

(* The thread that batches.                                                *)
BatchFits ==
    /\ \A t, u \in batchers : t = u
    /\ \A t \in Threads : pc[t] \in {"committing", "aborting"} => t \in batchers
    /\ batchers # {} => Sending \subseteq batchers
    /\ coreBatching => batchers # {}

(* The core, without a connection and while it cancels.                    *)
CoreFits ==
    /\ conn # "up" => /\ wire = <<>> /\ batchBuf = <<>>
                      /\ ~coreBatching /\ canceling = -1
    /\ canceling # -1 => Sending = {} /\ batchBuf = <<>> /\ canceling = Len(wire)

(* With a connection: requests wait in the order of their pairs.           *)
Pairs    == vCallback \o vBatching
Requests == wire \o batchBuf

InLine(f, q, w) ==
    /\ \A i, j \in DOMAIN q : \A k, l \in DOMAIN w :
        i < j /\ f[q[i]] = w[k] /\ f[q[j]] = w[l] => k < l
    /\ \A i, j \in DOMAIN q :
        i < j /\ f[q[j]] \in Range(w) => f[q[i]] \in Range(w)

Pushed == {hand[t].call : t \in {u \in Threads : pc[u] = "pushed"}}
Stages == {pc[t] : t \in Threads}

(* A pair waits for a request that is under way, or about to be ...        *)
PairsWait ==
    /\ \A p \in Range(vCallback) :
        \/ content[p] \in Range(wire) \union Pushed
        \/ "committing" \in Stages /\ content[p] \in Range(batchBuf)
    /\ \A p \in Range(vBatching) :
        content[p] \in Range(batchBuf) \union Pushed

(* ... and a request finds its pair.                                       *)
RequestsHeard ==
    /\ \A c \in Range(wire) : HasCallback(c) =>
        \E p \in Range(vCallback) : content[p] = c
    /\ \A c \in Range(batchBuf) : HasCallback(c) =>
        \/ "aborting" \in Stages
        \/ \E p \in Range(vCallback) \union Range(vBatching) : content[p] = c

BatchApart ==
    /\ batchBuf # <<>> \/ vBatching # <<>> => coreBatching
    /\ \A t \in Sending : hand[t].batching = coreBatching
    /\ \A t \in Threads : pc[t] = "pushed" =>
        /\ hand[t].pair \in Range(IF coreBatching THEN vBatching ELSE vCallback)
        /\ content[hand[t].pair] = hand[t].call
    /\ {"committing", "aborting"} \cap Stages # {} => vBatching = <<>>

UpFits ==
    /\ InLine(content, Pairs, Requests) /\ PairsWait /\ RequestsHeard /\ BatchApart
    /\ IsInjective(Requests) /\ Range(wire) \union Range(batchBuf) \subseteq sent

(* When the connection is down only unsuccessful calls have queued pairs.  *)
DownFits ==
    /\ \A p \in Range(vCallback) : \E t \in Threads :
        pc[t] \in {"pushed", "failed"} /\ ~hand[t].batching /\ hand[t].pair = p
    /\ \A p \in Range(vBatching) : \E t \in Threads :
        pc[t] \in {"pushed", "failed"} /\ hand[t].batching /\ hand[t].pair = p

GotFits == \A c \in Call : got[c] \in {0, c}

PlaceInv == TypeOK /\ OnePlace

SessionInv ==
    /\ PlaceInv /\ ContentsFit /\ CallsKept /\ CleanFits /\ HandsFit
    /\ BatchFits /\ CoreFits
    /\ (conn = "up" => UpFits) /\ (conn = "down" => DownFits) /\ GotFits
----------------------------------------------------------------------------
(* What the steps of SendRequest do to the pairs.                          *)
Others(t) == \A u \in Threads : u # t => pc'[u] = pc[u] /\ hand'[u] = hand[u]

LEMMA PrepareEffect ==
    ASSUME PlaceInv, NEW t \in Threads, SendPrepare(t)
    PROVE  /\ calls' = calls + 1 /\ calls' \in Call /\ HasCallback(calls')
           /\ hand'[t].pair \in Pair /\ hand'[t].pair \notin InUse
           /\ hand'[t].call = calls' /\ hand'[t].batching = coreBatching
           /\ pc[t] = "idle" /\ pc'[t] = "prepared" /\ Others(t)
           /\ Queued' = Queued /\ Held' = Held \union {hand'[t].pair}
           /\ content' = [content EXCEPT ![hand'[t].pair] = calls']
<1> USE DEF PlaceInv
<1> DEFINE p == IF rrStack # <<>> THEN Head(rrStack) ELSE made + 1
<1>0. HandlerType /\ ThreadType /\ CallType /\ CoreType
    BY DEF TypeOK
<1>1. /\ pc[t] = "idle" /\ calls' = calls + 1 /\ calls < MaxCalls /\ HasCallback(calls')
      /\ content' = [content EXCEPT ![p] = calls']
      /\ hand' = [hand EXCEPT ![t] =
                [call |-> calls', pair |-> p, batching |-> coreBatching]]
      /\ pc' = [pc EXCEPT ![t] = "prepared"]
      /\ UNCHANGED <<vCallback, vBatching, sb0, sb1>>
    BY DEF SendPrepare, MaySend, cleanVars
<1>2. calls' \in Call /\ made \in Nat /\ made <= calls /\ calls \in Nat
    BY <1>0, <1>1, ConstantsAssumption DEF CallType, HandlerType, Call
<1>3. p \in Pair /\ p \notin InUse
  <2>1. CASE rrStack # <<>>
    <3>1. Head(rrStack) \in Range(rrStack) /\ Head(rrStack) \in Pair
      BY <1>0, <2>1, PopFrontInjective DEF OnePlace, QueuesInjective, HandlerType
    <3> QED
      BY <2>1, <3>1 DEF OnePlace, PlacesApart, InUse, Queued
  <2>2. CASE rrStack = <<>>
    <3>1. made + 1 \in Pair /\ made + 1 \notin 1 .. made
      BY <1>1, <1>2, ConstantsAssumption DEF Pair, Call
    <3> QED
      BY <2>2, <3>1 DEF OnePlace, Allocated, InUse, Queued
  <2> QED
    BY <2>1, <2>2
<1> HIDE DEF p
<1>4. /\ hand'[t].pair = p /\ hand'[t].call = calls' /\ hand'[t].batching = coreBatching
      /\ pc'[t] = "prepared" /\ Others(t)
    BY <1>0, <1>1 DEF ThreadType, Others
<1>5. Queued' = Queued
    BY <1>1 DEF Queued
<1>6. Held' = Held \union {p}
    BY <1>1, <1>4 DEF Held, Others
<1> QED
    BY <1>1, <1>2, <1>3, <1>4, <1>5, <1>6

LEMMA PushEffect ==
    ASSUME PlaceInv, NEW t \in Threads, SendPush(t)
    PROVE  /\ hand[t].pair \in Pair /\ hand[t].pair \in Held
           /\ pc[t] = "prepared" /\ pc'[t] = "pushed" /\ hand' = hand
           /\ csSend = NoThread /\ csSend' = t /\ Others(t)
           /\ hand[t].batching =>
                /\ vBatching' = Append(vBatching, hand[t].pair) /\ vCallback' = vCallback
                /\ Range(vBatching') = Range(vBatching) \union {hand[t].pair}
           /\ ~hand[t].batching =>
                /\ vCallback' = Append(vCallback, hand[t].pair) /\ vBatching' = vBatching
                /\ Range(vCallback') = Range(vCallback) \union {hand[t].pair}
           /\ Queued' = Queued \union {hand[t].pair} /\ InUse' = InUse
<1> USE DEF PlaceInv
<1> DEFINE p == hand[t].pair
<1>0. HandlerType /\ ThreadType /\ CallType /\ CoreType
    BY DEF TypeOK
<1>1. /\ pc[t] = "prepared" /\ csSend = NoThread /\ csSend' = t
      /\ pc' = [pc EXCEPT ![t] = "pushed"] /\ hand' = hand
      /\ IF hand[t].batching
         THEN vBatching' = Append(vBatching, p) /\ vCallback' = vCallback
         ELSE vCallback' = Append(vCallback, p) /\ vBatching' = vBatching
      /\ UNCHANGED <<sb0, sb1>>
    BY DEF SendPush, cleanVars
<1>2. p \in Pair /\ p \in Held
    BY <1>0, <1>1 DEF ThreadType, Sending, Held
<1>3. pc'[t] = "pushed" /\ Others(t)
    BY <1>0, <1>1 DEF ThreadType, Others
<1>4. p \notin Range(vBatching) /\ p \notin Range(vCallback)
    BY <1>2 DEF OnePlace, PlacesApart
<1>5. /\ Range(Append(vBatching, p)) = Range(vBatching) \union {p}
      /\ Range(Append(vCallback, p)) = Range(vCallback) \union {p}
    BY <1>0, <1>2, <1>4, PushBackInjective DEF OnePlace, QueuesInjective, HandlerType
<1>6. Held' = Held \ {p}
    BY <1>1, <1>3 DEF Held, Others, OnePlace, HandsApart
<1> HIDE DEF p
<1>7. Queued' = Queued \union {p}
    BY <1>1, <1>5 DEF Queued
<1>8. InUse' = InUse
    BY <1>2, <1>6, <1>7 DEF InUse
<1> QED
    BY <1>1, <1>2, <1>3, <1>5, <1>7, <1>8 DEF p

LEMMA UndoEffect ==
    ASSUME PlaceInv, NEW t \in Threads, SendUndo(t)
    PROVE  /\ pc[t] = "failed" /\ pc'[t] = "idle" /\ Others(t) /\ Held' = Held
           /\ hand[t].batching =>
                /\ Range(vBatching') = Range(vBatching) \ {hand[t].pair}
                /\ vCallback' = vCallback
           /\ ~hand[t].batching =>
                /\ Range(vCallback') = Range(vCallback) \ {hand[t].pair}
                /\ vBatching' = vBatching
           /\ Queued' \subseteq Queued /\ Queued \subseteq Queued' \union {hand[t].pair}
<1> USE DEF PlaceInv
<1> DEFINE p == hand[t].pair
<1>0. HandlerType /\ ThreadType
    BY DEF TypeOK
<1>1. /\ pc[t] = "failed" /\ pc' = [pc EXCEPT ![t] = "idle"]
      /\ hand' = [hand EXCEPT ![t] = NoHand] /\ UNCHANGED <<sb0, sb1>>
    BY DEF SendUndo, cleanVars
<1>2. pc'[t] = "idle" /\ Others(t)
    BY <1>0, <1>1 DEF ThreadType, Others
<1>3. Held' = Held
    BY <1>1, <1>2 DEF Held, Others
<1>4. ASSUME NEW q \in Seq(Pair), NEW qNext, RemovePair(q, qNext, p), IsInjective(q)
      PROVE  Range(qNext) = Range(q) \ {p}
  <2>1. CASE p \notin Range(q) /\ qNext = q
    BY <2>1
  <2>2. CASE \E i \in DOMAIN q : q[i] = p /\ qNext = RemoveAt(q, i)
    <3>1. PICK i \in DOMAIN q : q[i] = p /\ qNext = RemoveAt(q, i)
      BY <2>2
    <3>2. i \in 1 .. Len(q)
      BY LenProperties
    <3> QED
      BY <1>4, <3>1, <3>2, RemoveAtInjective
  <2> QED
    BY <1>4, <2>1, <2>2 DEF RemovePair
<1>5. hand[t].batching =>
        Range(vBatching') = Range(vBatching) \ {p} /\ vCallback' = vCallback
    BY <1>0, <1>4 DEF SendUndo, HandlerType, OnePlace, QueuesInjective
<1>6. ~hand[t].batching =>
        Range(vCallback') = Range(vCallback) \ {p} /\ vBatching' = vBatching
    BY <1>0, <1>4 DEF SendUndo, HandlerType, OnePlace, QueuesInjective
<1> HIDE DEF p
<1>7. Queued' \subseteq Queued /\ Queued \subseteq Queued' \union {p}
    BY <1>1, <1>5, <1>6 DEF Queued
<1> QED
    BY <1>1, <1>2, <1>3, <1>5, <1>6, <1>7 DEF p

(* Steps that settle no call, and may give up pairs of calls that were not *)
(* sent.                                                                   *)
LEMMA KeptPairs ==
    ASSUME ContentsFit, CallsKept, UNCHANGED <<content, idOf, outcome>>,
           calls \in Nat, calls' \in Nat, calls <= calls', sent' \subseteq 1 .. calls',
           InUse' \subseteq InUse,
           NEW D, Queued \subseteq Queued' \union D, \A p \in D : content[p] \notin sent,
           \A c \in sent' : c \notin sent /\ HasCallback(c) =>
                \E p \in Queued' : content[p] = c
    PROVE  ContentsFit' /\ CallsKept'
<1>1. \A c : HasCallback(c)' <=> HasCallback(c)
    BY DEF HasCallback
<1>2. ContentsFit'
  <2>1. \A p \in InUse' : /\ content'[p] \in 1 .. calls' /\ idOf'[content'[p]] \in ReqIds
                          /\ outcome'[content'[p]] = "none"
    BY DEF ContentsFit, HasCallback
  <2>2. \A p, q \in InUse' : content'[p] = content'[q] => p = q
    BY DEF ContentsFit
  <2>3. \A c \in Call : c > calls' => outcome'[c] = "none"
    BY ConstantsAssumption DEF ContentsFit, Call
  <2> QED
    BY <2>1, <2>2, <2>3 DEF ContentsFit, HasCallback
<1>3. ASSUME NEW c \in sent', HasCallback(c), outcome[c] = "none"
      PROVE  \E p \in Queued' : content[p] = c
  <2>1. CASE c \in sent
    <3>1. PICK p \in Queued : content[p] = c
      BY <1>3, <2>1 DEF CallsKept
    <3> QED
      BY <2>1, <3>1
  <2>2. CASE c \notin sent
    BY <1>3, <2>2
  <2> QED
    BY <2>1, <2>2
<1>4. CallsKept'
    BY <1>3 DEF CallsKept, HasCallback
<1> QED
    BY <1>2, <1>4

(* ... and those that give up none.                                        *)
LEMMA SteadyPairs ==
    ASSUME ContentsFit, CallsKept, UNCHANGED <<content, idOf, outcome>>,
           calls \in Nat, calls' \in Nat, calls <= calls', sent' \subseteq 1 .. calls',
           InUse' = InUse, Queued \subseteq Queued',
           \A c \in sent' : c \notin sent /\ HasCallback(c) =>
                \E p \in Queued' : content[p] = c
    PROVE  ContentsFit' /\ CallsKept'
<1> DEFINE D == {}
<1>1. /\ InUse' \subseteq InUse /\ Queued \subseteq Queued' \union D
      /\ \A p \in D : content[p] \notin sent
    OBVIOUS
<1> HIDE DEF D
<1> QED
    BY <1>1, KeptPairs

(* Steps that take pairs out of the queues and settle their calls.         *)
Final == \A c \in Call : outcome[c] # "none" => outcome'[c] = outcome[c]

LEMMA RetiredPairs ==
    ASSUME CallType, ContentsFit, CallsKept, UNCHANGED <<content, idOf, calls, sent>>,
           NEW D \in SUBSET Queued, D \cap Held = {},
           Queued' = Queued \ D, Held' = Held,
           NEW why, why # "none", why # "unheard",
           \A c \in Call : outcome'[c] = IF \E p \in D : content[p] = c
                                         THEN why ELSE outcome[c]
    PROVE  ContentsFit' /\ CallsKept' /\ Final
<1>0. calls \in Nat /\ 1 .. calls \subseteq Call
    BY ConstantsAssumption DEF CallType, Call
<1>1. InUse' = InUse \ D /\ D \subseteq InUse
    BY DEF InUse
<1>2. ASSUME NEW p \in InUse'
      PROVE  /\ content[p] \in 1 .. calls /\ idOf[content[p]] \in ReqIds
             /\ outcome'[content[p]] = "none"
  <2>1. p \in InUse /\ p \notin D
    BY <1>1
  <2>2. content[p] \in 1 .. calls /\ HasCallback(content[p]) /\ outcome[content[p]] = "none"
    BY <2>1 DEF ContentsFit
  <2>3. ~\E q \in D : content[q] = content[p]
    BY <1>1, <2>1 DEF ContentsFit
  <2> QED
    BY <1>0, <2>2, <2>3 DEF HasCallback
<1>3. \A p, q \in InUse' : content[p] = content[q] => p = q
    BY <1>1 DEF ContentsFit
<1>4. \A p \in D : content[p] \in 1 .. calls /\ outcome[content[p]] = "none"
    BY <1>1 DEF ContentsFit
<1>5. \A c \in Call : c > calls => outcome'[c] = "none"
    BY <1>0, <1>4 DEF ContentsFit
<1>6. ContentsFit'
    BY <1>2, <1>3, <1>5 DEF ContentsFit, HasCallback
<1>7. Final
    BY <1>4 DEF Final
<1>8. ASSUME NEW c \in sent, HasCallback(c), outcome'[c] = "none"
      PROVE  \E p \in Queued' : content[p] = c
  <2>1. c \in Call
    BY <1>0 DEF ContentsFit
  <2>2. outcome[c] = "none" /\ ~\E p \in D : content[p] = c
    BY <1>8, <2>1
  <2> QED
    BY <1>8, <2>2 DEF CallsKept
<1>9. CallsKept'
    BY <1>8 DEF CallsKept, HasCallback
<1> QED
    BY <1>6, <1>7, <1>9

(* The request that is answered next, if it has callbacks, is the one of   *)
(* the front pair.                                                         *)
LEMMA FrontMatches ==
    ASSUME PlaceInv, ContentsFit, UpFits, ~Random, 1 \in DOMAIN wire
    PROVE  /\ HasCallback(wire[1]) => /\ 1 \in DOMAIN vCallback
                                      /\ content[vCallback[1]] = wire[1]
                                      /\ Matching(wire[1]) = {1}
           /\ ~HasCallback(wire[1]) => Matching(wire[1]) = {}
<1> USE DEF PlaceInv
<1>0. HandlerType /\ CoreType
    BY DEF TypeOK
<1>1. /\ Len(wire) \in Nat /\ DOMAIN wire = 1 .. Len(wire)
      /\ Len(batchBuf) \in Nat
      /\ DOMAIN Requests = 1 .. Len(wire) + Len(batchBuf)
      /\ \A k \in 1 .. Len(wire) : Requests[k] = wire[k]
    BY <1>0, LenProperties, ConcatProperties DEF CoreType, Requests
<1>2. /\ Len(vCallback) \in Nat /\ DOMAIN vCallback = 1 .. Len(vCallback)
      /\ Len(vBatching) \in Nat
      /\ DOMAIN Pairs = 1 .. Len(vCallback) + Len(vBatching)
      /\ \A i \in 1 .. Len(vCallback) : Pairs[i] = vCallback[i]
    BY <1>0, LenProperties, ConcatProperties DEF HandlerType, Pairs
<1>3. Requests[1] = wire[1] /\ 1 \in DOMAIN Requests
    BY <1>1
<1>4. ASSUME HasCallback(wire[1])
      PROVE  1 \in DOMAIN vCallback /\ content[vCallback[1]] = wire[1]
  <2>1. PICK i \in DOMAIN vCallback : content[vCallback[i]] = wire[1]
    <3>1. wire[1] \in Range(wire)
      BY DEF Range
    <3>2. PICK p \in Range(vCallback) : content[p] = wire[1]
      BY <1>4, <3>1 DEF UpFits, RequestsHeard
    <3> QED
      BY <3>2 DEF Range
  <2>2. i \in DOMAIN Pairs /\ 1 \in DOMAIN Pairs /\ Pairs[i] = vCallback[i]
        /\ 1 \in DOMAIN vCallback /\ Pairs[1] = vCallback[1]
    BY <1>2
  <2>3. ASSUME i # 1
        PROVE  FALSE
    <3>1. 1 < i
      BY <1>2, <2>3
    <3>2. content[Pairs[i]] = Requests[1]
      BY <1>3, <2>1, <2>2
    <3>3. content[Pairs[i]] \in Range(Requests)
      BY <1>3, <3>2 DEF Range
    <3>4. content[Pairs[1]] \in Range(Requests)
      BY <2>2, <3>1, <3>3 DEF UpFits, InLine
    <3>5. PICK k \in DOMAIN Requests : content[Pairs[1]] = Requests[k]
      BY <3>4 DEF Range
    <3>6. k < 1
      BY <1>3, <2>2, <3>1, <3>2, <3>5 DEF UpFits, InLine
    <3> QED
      BY <1>1, <3>6
  <2> QED
    BY <2>1, <2>2, <2>3
<1>5. HasCallback(wire[1]) => Matching(wire[1]) = {1}
    BY <1>4 DEF Matching
<1>6. ASSUME ~HasCallback(wire[1]), NEW i \in Matching(wire[1])
      PROVE  FALSE
  <2>1. i \in DOMAIN vCallback /\ idOf[content[vCallback[i]]] = idOf[wire[1]]
    BY DEF Matching
  <2>2. vCallback[i] \in InUse
    BY <2>1 DEF InUse, Queued, Range
  <2> QED
    BY <1>6, <2>1, <2>2 DEF ContentsFit, HasCallback
<1> QED
    BY <1>4, <1>5, <1>6

LEMMA AnswerEffect ==
    ASSUME PlaceInv, ContentsFit, UpFits, ~Random, NEW how, Answer(how)
    PROVE  /\ cleaning = "no" /\ conn = "up" /\ 1 \in DOMAIN wire
           /\ wire' = RemoveAt(wire, 1)
           /\ canceling' = IF 1 <= canceling THEN canceling - 1 ELSE canceling
           /\ \/ /\ ~HasCallback(wire[1])
                 /\ UNCHANGED <<vCallback, got, outcome>>
              \/ /\ HasCallback(wire[1])
                 /\ 1 \in DOMAIN vCallback /\ content[vCallback[1]] = wire[1]
                 /\ vCallback' = RemoveAt(vCallback, 1)
                 /\ Range(vCallback') = Range(vCallback) \ {vCallback[1]}
                 /\ outcome' = [outcome EXCEPT ![wire[1]] = how]
                 /\ got' = [got EXCEPT ![wire[1]] = wire[1]]
<1> USE DEF PlaceInv
<1>0. HandlerType /\ CoreType /\ CallType
    BY DEF TypeOK
<1>1. cleaning = "no" /\ conn = "up"
    BY DEF Answer
<1>2. PICK k \in DOMAIN wire :
        /\ Random \/ k = 1
        /\ RunCallback(wire[k], how) \/ NoCallback(wire[k])
        /\ wire' = RemoveAt(wire, k)
        /\ canceling' = IF k <= canceling THEN canceling - 1 ELSE canceling
    BY DEF Answer
<1>3. k = 1
    BY <1>2
<1>4. CASE ~HasCallback(wire[1])
  <2>1. Matching(wire[1]) = {}
    BY <1>2, <1>3, <1>4, FrontMatches
  <2>2. NoCallback(wire[1])
    BY <1>2, <1>3, <2>1 DEF RunCallback
  <2>3. wire[1] \in Call
    BY <1>0, <1>2, <1>3, LenProperties DEF CoreType
  <2>4. UNCHANGED <<vCallback, got, outcome>>
    BY <1>0, <1>4, <2>2, <2>3 DEF NoCallback, CallType
  <2> QED
    BY <1>1, <1>2, <1>3, <1>4, <2>4
<1>5. CASE HasCallback(wire[1])
  <2>1. /\ 1 \in DOMAIN vCallback /\ content[vCallback[1]] = wire[1]
        /\ Matching(wire[1]) = {1}
    BY <1>2, <1>3, <1>5, FrontMatches
  <2>2. RunCallback(wire[1], how)
    BY <1>2, <1>3, <2>1 DEF NoCallback
  <2>3. /\ vCallback' = RemoveAt(vCallback, 1)
        /\ outcome' = [outcome EXCEPT ![wire[1]] = how]
        /\ got' = [got EXCEPT ![wire[1]] = wire[1]]
    BY <2>1, <2>2 DEF RunCallback
  <2>4. 1 \in 1 .. Len(vCallback) /\ vCallback \in Seq(Pair) /\ IsInjective(vCallback)
    BY <1>0, <2>1, LenProperties DEF HandlerType, OnePlace, QueuesInjective
  <2>5. Range(vCallback') = Range(vCallback) \ {vCallback[1]}
    BY <2>3, <2>4, RemoveAtInjective
  <2> QED
    BY <1>1, <1>2, <1>3, <1>5, <2>1, <2>3, <2>5
<1> QED
    BY <1>4, <1>5

LEMMA InUsePairs == PlaceInv => InUse \subseteq Pair
<1> SUFFICES ASSUME PlaceInv
             PROVE  InUse \subseteq Pair
    OBVIOUS
<1>1. HandlerType /\ ThreadType /\ CleanType
    BY DEF PlaceInv, TypeOK
<1>2. Queued \subseteq Pair
    BY <1>1, RangeOfSeq DEF HandlerType, CleanType, Queued
<1>3. Held \subseteq Pair
    BY <1>1 DEF Held, ThreadType, Sending
<1> QED
    BY <1>2, <1>3 DEF InUse

(* Contents and outcomes, step by step.                                    *)
Fits == ContentsFit /\ CallsKept /\ CleanFits

LEMMA SendPairs ==
    ASSUME PlaceInv, Fits, HandsFit, conn = "up" => UpFits,
           NEW t \in Threads, Send(t) \/ SendMute(t)
    PROVE  Fits' /\ Final
<1> USE DEF PlaceInv, Fits
<1>0. HandlerType /\ ThreadType /\ CallType /\ CoreType
    BY DEF TypeOK
<1>1. calls \in Nat /\ sent \subseteq 1 .. calls
    BY <1>0, ConstantsAssumption DEF CallType, ContentsFit
<1>2. /\ UNCHANGED <<idOf, outcome, sb0, sb1, cleaning>>
    BY DEF Send, SendPrepare, SendPush, SendCore, SendUndo, SendMute, cleanVars, callVars
<1>3. CleanFits' /\ Final
    BY <1>2 DEF CleanFits, Final
<1>4. CASE SendPrepare(t)
  <2> DEFINE p == hand'[t].pair
  <2>1. /\ calls' = calls + 1 /\ calls' \in Call /\ HasCallback(calls')
        /\ p \in Pair /\ p \notin InUse
        /\ Queued' = Queued /\ Held' = Held \union {p}
        /\ content' = [content EXCEPT ![p] = calls']
    BY <1>4, PrepareEffect
  <2>2. sent' = sent
    BY <1>4 DEF SendPrepare
  <2> HIDE DEF p
  <2>3. content'[p] = calls' /\ \A q \in InUse : content'[q] = content[q]
    BY <1>0, <2>1, InUsePairs DEF HandlerType
  <2>4. InUse' = InUse \union {p}
    BY <2>1 DEF InUse
  <2>5. \A q \in InUse : /\ content'[q] \in 1 .. calls /\ idOf[content'[q]] \in ReqIds
                         /\ outcome[content'[q]] = "none"
    BY <2>3 DEF ContentsFit, HasCallback
  <2>6. calls' > calls /\ calls' \in 1 .. calls' /\ outcome[calls'] = "none"
        /\ 1 .. calls \subseteq 1 .. calls' /\ calls' \notin 1 .. calls
    BY <1>1, <2>1 DEF ContentsFit
  <2>7. \A q, r \in InUse' : content'[q] = content'[r] => q = r
    BY <2>3, <2>4, <2>5, <2>6 DEF ContentsFit
  <2>8. \A q \in InUse' : /\ content'[q] \in 1 .. calls' /\ idOf'[content'[q]] \in ReqIds
                          /\ outcome'[content'[q]] = "none"
    BY <1>2, <2>1, <2>3, <2>4, <2>5, <2>6 DEF HasCallback
  <2>9. \A c \in Call : c > calls' => outcome'[c] = "none"
    BY <1>1, <1>2, <2>1, ConstantsAssumption DEF ContentsFit, Call
  <2>10. ContentsFit'
    BY <1>1, <2>2, <2>6, <2>7, <2>8, <2>9 DEF ContentsFit, HasCallback
  <2>11. Queued \subseteq InUse
    BY DEF InUse
  <2>12. \A c \in sent : HasCallback(c) /\ outcome[c] = "none" =>
            \E q \in Queued : content'[q] = c
    BY <2>3, <2>11 DEF CallsKept
  <2>13. CallsKept'
    BY <1>2, <2>1, <2>2, <2>12 DEF CallsKept, HasCallback
  <2> QED
    BY <1>3, <2>10, <2>13
<1>5. CASE SendPush(t)
  <2>1. Queued \subseteq Queued' /\ InUse' = InUse
    BY <1>5, PushEffect
  <2>2. UNCHANGED <<content, calls, sent>> /\ calls <= calls'
    BY <1>1, <1>5 DEF SendPush, callVars
  <2>3. ContentsFit' /\ CallsKept'
    BY <1>1, <1>2, <2>1, <2>2, SteadyPairs
  <2> QED
    BY <1>3, <2>3
<1>6. CASE SendCore(t)
  <2>1. UNCHANGED <<content, calls, vCallback, vBatching, sb0, sb1>>
    BY <1>6 DEF SendCore, handlerVars, cleanVars
  <2>2. Queued' = Queued /\ Held' = Held
    <3>1. /\ pc[t] = "pushed" /\ \E x \in {"idle", "failed"} : pc' = [pc EXCEPT ![t] = x]
          /\ hand' = hand \/ hand' = [hand EXCEPT ![t] = NoHand]
      BY <1>6 DEF SendCore
    <3>2. \A u \in Threads : /\ pc'[u] = "prepared" <=> pc[u] = "prepared"
                             /\ pc[u] = "prepared" => hand'[u] = hand[u]
      BY <1>0, <3>1 DEF ThreadType
    <3> QED
      BY <2>1, <3>2, HeldStays DEF Queued
  <2>3. \/ sent' = sent
        \/ conn = "up" /\ sent' = sent \union {hand[t].call}
    BY <1>6 DEF SendCore
  <2>4. pc[t] = "pushed" /\ t \in Sending
    BY <1>6 DEF SendCore, Sending
  <2>5. hand[t].call \in 1 .. calls
    BY <2>4 DEF HandsFit, HandFits
  <2>6. conn = "up" => \E p \in Queued : content[p] = hand[t].call
    BY <2>4 DEF UpFits, BatchApart, Queued
  <2>7. ContentsFit' /\ CallsKept'
    <3>1. sent' \subseteq 1 .. calls
      BY <1>1, <2>3, <2>5
    <3>2. \A c \in sent' : c \notin sent => \E p \in Queued' : content[p] = c
      BY <2>2, <2>3, <2>6
    <3>3. InUse' = InUse
      BY <2>2 DEF InUse
    <3> QED
      BY <1>1, <1>2, <2>1, <2>2, <3>1, <3>2, <3>3, SteadyPairs
  <2> QED
    BY <1>3, <2>7
<1>7. CASE SendUndo(t)
  <2>1. /\ pc[t] = "failed" /\ Held' = Held
        /\ Queued' \subseteq Queued /\ Queued \subseteq Queued' \union {hand[t].pair}
    BY <1>7, UndoEffect
  <2>2. UNCHANGED <<content, calls, sent>>
    BY <1>7 DEF SendUndo, callVars
  <2>3. content[hand[t].pair] \notin sent
    BY <2>1 DEF HandsFit, HandFits, Sending
  <2>4. InUse' \subseteq InUse
    BY <2>1 DEF InUse
  <2>5. ContentsFit' /\ CallsKept'
    <3> DEFINE D == {hand[t].pair}
    <3>1. Queued \subseteq Queued' \union D /\ \A p \in D : content[p] \notin sent
      BY <2>1, <2>3
    <3> HIDE DEF D
    <3> QED
      BY <1>1, <1>2, <2>2, <2>4, <3>1, KeptPairs
  <2> QED
    BY <1>3, <2>5
<1>8. CASE SendMute(t)
  <2>1. /\ calls' = calls + 1 /\ ~HasCallback(calls')
        /\ sent' \subseteq sent \union {calls'}
        /\ UNCHANGED <<content, vCallback, vBatching, pc, hand>>
    BY <1>8 DEF SendMute, handlerVars, threadVars
  <2>2. InUse' = InUse /\ Queued' = Queued
    BY <1>2, <2>1 DEF InUse, Queued, Held
  <2>3. calls' \in Nat /\ calls <= calls' /\ sent' \subseteq 1 .. calls'
    BY <1>1, <2>1
  <2>4. \A c \in sent' : c \notin sent => ~HasCallback(c)
    BY <2>1
  <2>5. ContentsFit' /\ CallsKept'
    BY <1>1, <1>2, <2>1, <2>2, <2>3, <2>4, SteadyPairs
  <2> QED
    BY <1>3, <2>5
<1> QED
    BY <1>4, <1>5, <1>6, <1>7, <1>8 DEF Send

LEMMA BatchPairs ==
    ASSUME PlaceInv, Fits, NEW t \in Threads, Batch(t) \/ Cancel(t)
    PROVE  Fits' /\ Final /\ Held' = Held
<1> USE DEF PlaceInv, Fits
<1>0. HandlerType /\ ThreadType /\ CallType
    BY DEF TypeOK
<1>1. calls \in Nat /\ sent \subseteq 1 .. calls
    BY <1>0, ConstantsAssumption DEF CallType, ContentsFit
<1>2. /\ UNCHANGED <<content, idOf, calls, sent, sb0, sb1, cleaning, hand>>
      /\ \/ pc' = pc
         \/ /\ pc[t] \in {"idle", "committing", "aborting"}
            /\ \E x \in {"idle", "committing", "aborting"} : pc' = [pc EXCEPT ![t] = x]
    BY DEF Batch, StartBatching, CommitBatchingMove, CommitBatchingCore,
           AbortBatchingClean, AbortBatchingCore, Cancel, threadVars, cleanVars,
           handlerVars, callVars
<1>3. CleanFits'
    BY <1>2 DEF CleanFits
<1>4. Held' = Held
  <2>1. \A u \in Threads : /\ pc'[u] = "prepared" <=> pc[u] = "prepared"
                           /\ pc[u] = "prepared" => hand'[u] = hand[u]
    BY <1>0, <1>2 DEF ThreadType
  <2> QED
    BY <2>1, HeldStays
<1>5. CASE AbortBatchingClean(t)
  <2>1. /\ vBatching' = <<>> /\ vCallback' = vCallback
        /\ Settle(vBatching, "aborted")
    BY <1>5 DEF AbortBatchingClean
  <2> DEFINE D == Range(vBatching)
  <2>2. /\ D \in SUBSET Queued /\ D \cap Held = {}
        /\ D \cap (Range(vCallback) \union Range(sb0) \union Range(sb1)) = {}
    BY DEF Queued, OnePlace, PlacesApart
  <2>3. Queued' = Queued \ D
    BY <1>2, <2>1, <2>2, EmptyInjective DEF Queued
  <2>4. \A c \in Call : outcome'[c] = IF \E p \in D : content[p] = c
                                      THEN "aborted" ELSE outcome[c]
    BY <2>1 DEF Settle
  <2> HIDE DEF D
  <2>5. ContentsFit' /\ CallsKept' /\ Final
    <3> DEFINE why == "aborted"
    <3>1. /\ why # "none" /\ why # "unheard"
          /\ \A c \in Call : outcome'[c] = IF \E p \in D : content[p] = c
                                           THEN why ELSE outcome[c]
      BY <2>4
    <3> HIDE DEF why
    <3> QED
      BY <1>0, <1>2, <1>4, <2>2, <2>3, <3>1, RetiredPairs
  <2> QED
    BY <1>3, <1>4, <2>5
<1>6. CASE ~AbortBatchingClean(t)
  <2>1. /\ outcome' = outcome
        /\ \/ UNCHANGED <<vCallback, vBatching>>
           \/ vCallback' = vCallback \o vBatching /\ vBatching' = <<>>
    BY <1>6 DEF Batch, StartBatching, CommitBatchingMove, CommitBatchingCore,
                AbortBatchingCore, Cancel, handlerVars, callVars
  <2>2. Range(vCallback \o vBatching) = Range(vCallback) \union Range(vBatching)
    BY <1>0, RangeConcatenation DEF HandlerType
  <2>3. Queued' = Queued
    BY <1>2, <2>1, <2>2, EmptyInjective DEF Queued
  <2>4. InUse' = InUse
    BY <1>4, <2>3 DEF InUse
  <2>5. ContentsFit' /\ CallsKept'
    BY <1>1, <1>2, <2>1, <2>3, <2>4, SteadyPairs
  <2> QED
    BY <1>3, <1>4, <2>1, <2>5 DEF Final
<1> QED
    BY <1>5, <1>6

LEMMA WorkerPairs ==
    ASSUME PlaceInv, Fits, ~Random, conn = "up" => UpFits,
           Worker \/ CoreClose \/ Reconnect
           \/ \E n \in 0 .. Len(rrStack) - 1 : ClearResultCallbackPool(n)
    PROVE  Fits' /\ Final
<1> USE DEF PlaceInv, Fits
<1>0. HandlerType /\ ThreadType /\ CallType /\ CoreType
    BY DEF TypeOK
<1>1. calls \in Nat /\ sent \subseteq 1 .. calls
    BY <1>0, ConstantsAssumption DEF CallType, ContentsFit
<1>2. UNCHANGED <<content, idOf, calls, sent, pc, hand>>
    BY DEF Worker, OnRequestProcessed, OnServerException, Answer, OnCanceled,
           OnSocketClosed, CleanCallbacksBatching, CleanCallbacksWaiting,
           CoreClose, Reconnect, ClearResultCallbackPool, threadVars, handlerVars, callVars
<1>3. Held' = Held
    BY <1>2 DEF Held
<1>4. ASSUME outcome' = outcome, Queued' = Queued
      PROVE  ContentsFit' /\ CallsKept' /\ Final
  <2>1. InUse' = InUse
    BY <1>3, <1>4 DEF InUse
  <2>2. ContentsFit' /\ CallsKept'
    BY <1>1, <1>2, <1>4, <2>1, SteadyPairs
  <2> QED
    BY <1>4, <2>2 DEF Final
<1>5. ASSUME NEW how \in {"result", "exception"}, Answer(how)
      PROVE  Fits' /\ Final
  <2>1. UNCHANGED <<vBatching, sb0, sb1, cleaning>>
    BY <1>5 DEF Answer, cleanVars
  <2>2. UpFits
    BY <1>5 DEF Answer
  <2>3. CASE UNCHANGED <<vCallback, outcome>>
    <3>1. Queued' = Queued /\ CleanFits'
      BY <2>1, <2>3 DEF Queued, CleanFits
    <3> QED
      BY <1>4, <2>3, <3>1
  <2>4. CASE /\ 1 \in DOMAIN vCallback /\ content[vCallback[1]] = wire[1]
             /\ Range(vCallback') = Range(vCallback) \ {vCallback[1]}
             /\ outcome' = [outcome EXCEPT ![wire[1]] = how]
    <3> DEFINE D == {vCallback[1]}
    <3>1. vCallback[1] \in Range(vCallback)
      BY <2>4 DEF Range
    <3>2. /\ D \in SUBSET Queued /\ D \cap Held = {}
          /\ D \cap (Range(vBatching) \union Range(sb0) \union Range(sb1)) = {}
      BY <3>1 DEF Queued, OnePlace, PlacesApart
    <3>3. Queued' = Queued \ D
      BY <2>1, <2>4, <3>2 DEF Queued
    <3>4. \A c \in Call : outcome'[c] = IF \E p \in D : content[p] = c
                                        THEN how ELSE outcome[c]
      BY <1>0, <2>4 DEF CallType
    <3> HIDE DEF D
    <3>5. ContentsFit' /\ CallsKept' /\ Final
      BY <1>0, <1>2, <1>3, <3>2, <3>3, <3>4, RetiredPairs
    <3> QED
      BY <2>1, <3>5 DEF CleanFits
  <2> QED
    BY <1>5, <2>2, <2>3, <2>4, AnswerEffect
<1>6. CASE OnCanceled \/ OnSocketClosed
  <2>1. /\ sb0' = vBatching /\ vBatching' = <<>>
        /\ sb1' = vCallback /\ vCallback' = <<>>
        /\ cleaning = "no" /\ cleaning' # "no" /\ outcome' = outcome
    BY <1>6 DEF OnCanceled, OnSocketClosed, CleanCallbacksSwap, callVars
  <2>2. Range(sb0) = {} /\ Range(sb1) = {}
    BY <2>1, EmptyInjective DEF CleanFits
  <2>3. Queued' = Queued
    BY <2>1, <2>2, EmptyInjective DEF Queued
  <2> QED
    BY <1>4, <2>1, <2>3 DEF CleanFits
<1>7. CASE CleanCallbacksBatching
  <2>1. /\ UNCHANGED <<vCallback, vBatching, sb1, cleaning>> /\ sb0' = <<>>
        /\ cleaning # "no" /\ Settle(sb0, cleaning)
    BY <1>7 DEF CleanCallbacksBatching, Discard
  <2> DEFINE D == Range(sb0)
  <2>2. /\ D \in SUBSET Queued /\ D \cap Held = {}
        /\ D \cap (Range(vCallback) \union Range(vBatching) \union Range(sb1)) = {}
    BY DEF Queued, OnePlace, PlacesApart
  <2>3. Queued' = Queued \ D
    BY <2>1, <2>2, EmptyInjective DEF Queued
  <2>4. \A c \in Call : outcome'[c] = IF \E p \in D : content[p] = c
                                      THEN cleaning ELSE outcome[c]
    BY <2>1 DEF Settle
  <2>5. cleaning # "none" /\ cleaning # "unheard"
    BY DEF TypeOK, CleanType
  <2> HIDE DEF D
  <2>6. ContentsFit' /\ CallsKept' /\ Final
    BY <1>0, <1>2, <1>3, <2>2, <2>3, <2>4, <2>5, RetiredPairs
  <2> QED
    BY <2>1, <2>6 DEF CleanFits
<1>8. CASE CleanCallbacksWaiting
  <2>1. /\ UNCHANGED <<vCallback, vBatching, sb0>> /\ sb1' = <<>> /\ sb0 = <<>>
        /\ cleaning # "no" /\ Settle(sb1, cleaning)
    BY <1>8 DEF CleanCallbacksWaiting, Discard
  <2> DEFINE D == Range(sb1)
  <2>2. /\ D \in SUBSET Queued /\ D \cap Held = {}
        /\ D \cap (Range(vCallback) \union Range(vBatching) \union Range(sb0)) = {}
    BY DEF Queued, OnePlace, PlacesApart
  <2>3. Queued' = Queued \ D
    BY <2>1, <2>2, EmptyInjective DEF Queued
  <2>4. \A c \in Call : outcome'[c] = IF \E p \in D : content[p] = c
                                      THEN cleaning ELSE outcome[c]
    BY <2>1 DEF Settle
  <2>5. cleaning # "none" /\ cleaning # "unheard"
    BY DEF TypeOK, CleanType
  <2> HIDE DEF D
  <2>6. ContentsFit' /\ CallsKept' /\ Final
    BY <1>0, <1>2, <1>3, <2>2, <2>3, <2>4, <2>5, RetiredPairs
  <2> QED
    BY <2>1, <2>6 DEF CleanFits
<1>9. CASE CoreClose \/ Reconnect
           \/ \E n \in 0 .. Len(rrStack) - 1 : ClearResultCallbackPool(n)
  <2>1. UNCHANGED <<vCallback, vBatching, sb0, sb1, cleaning, outcome>>
    BY <1>9 DEF CoreClose, Reconnect, ClearResultCallbackPool, handlerVars, cleanVars,
                callVars
  <2>2. Queued' = Queued /\ CleanFits'
    BY <2>1 DEF Queued, CleanFits
  <2> QED
    BY <1>4, <2>1, <2>2
<1> QED
    BY <1>5, <1>6, <1>7, <1>8, <1>9 DEF Worker, OnRequestProcessed, OnServerException
----------------------------------------------------------------------------
(* The hands of the threads.                                               *)
SentCalls == UNCHANGED <<content, sent, calls, csSend>>

LEMMA HandsStay ==
    ASSUME HandsFit, SentCalls, Sending' = Sending,
           \A u \in Sending : pc'[u] = pc[u] /\ hand'[u] = hand[u],
           conn' = "up" => conn = "up" \/ Sending = {}
    PROVE  HandsFit'
<1>1. ASSUME NEW u \in Sending'
      PROVE  HandFits(u)'
  <2>1. u \in Sending /\ HandFits(u) /\ pc'[u] = pc[u] /\ hand'[u] = hand[u]
    BY DEF HandsFit
  <2>2. \A v \in Sending' : hand'[v].call = hand'[u].call => v = u
    BY <2>1 DEF HandFits
  <2> QED
    BY <2>1, <2>2 DEF HandFits, SentCalls
<1> QED
    BY <1>1 DEF HandsFit

(* Outside SendRequest nothing touches a thread that sends.                *)
Outside(t) == Batch(t) \/ Cancel(t)
Clear      == \E n \in 0 .. Len(rrStack) - 1 : ClearResultCallbackPool(n)
Delivery   == Worker \/ CoreClose \/ Reconnect \/ Clear

LEMMA OutsideEffect ==
    ASSUME PlaceInv, NEW t \in Threads, Outside(t)
    PROVE  /\ SentCalls /\ hand' = hand /\ conn' = conn /\ Sending' = Sending
           /\ pc[t] \notin {"prepared", "pushed", "failed"}
           /\ pc'[t] \notin {"prepared", "pushed", "failed"}
           /\ \A u \in Threads : u # t => pc'[u] = pc[u]
           /\ \A u \in Sending : pc'[u] = pc[u]
           /\ \A u \in Threads : pc'[u] = "pushed" <=> pc[u] = "pushed"
<1>0. ThreadType
    BY DEF PlaceInv, TypeOK
<1>1. /\ SentCalls /\ hand' = hand /\ conn' = conn
      /\ pc[t] \in {"idle", "committing", "aborting"}
      /\ \/ pc' = pc
         \/ \E x \in {"idle", "committing", "aborting"} : pc' = [pc EXCEPT ![t] = x]
    BY DEF Outside, Batch, StartBatching, CommitBatchingMove, CommitBatchingCore,
           AbortBatchingClean, AbortBatchingCore, Cancel, threadVars, coreVars,
           handlerVars, callVars, SentCalls
<1>2. /\ pc'[t] \in {"idle", "committing", "aborting"}
      /\ \A u \in Threads : u # t => pc'[u] = pc[u]
    BY <1>0, <1>1 DEF ThreadType
<1>3. Sending' = Sending
    BY <1>1, <1>2 DEF Sending
<1> QED
    BY <1>1, <1>2, <1>3 DEF Sending

LEMMA DeliveryEffect ==
    ASSUME Delivery
    PROVE  /\ SentCalls /\ UNCHANGED <<pc, hand, batchers>>
           /\ Sending' = Sending
<1>1. SentCalls /\ UNCHANGED <<pc, hand, batchers>>
    BY DEF Delivery, Clear, Worker, OnRequestProcessed, OnServerException, Answer,
           OnCanceled, OnSocketClosed, CleanCallbacksBatching, CleanCallbacksWaiting,
           CoreClose, Reconnect, ClearResultCallbackPool, threadVars, handlerVars,
           callVars, SentCalls
<1> QED
    BY <1>1 DEF Sending

LEMMA OutsideHands ==
    ASSUME PlaceInv, HandsFit, NEW t \in Threads, Outside(t)
    PROVE  HandsFit'
BY OutsideEffect, HandsStay

LEMMA DeliveryHands ==
    ASSUME HandsFit, PatientReconnect, Delivery
    PROVE  HandsFit'
<1>1. SentCalls /\ UNCHANGED <<pc, hand>> /\ Sending' = Sending
    BY DeliveryEffect
<1>2. conn' = "up" => conn = "up" \/ Sending = {}
    BY DEF Delivery, Clear, Worker, OnRequestProcessed, OnServerException, Answer,
           OnCanceled, OnSocketClosed, CleanCallbacksBatching, CleanCallbacksWaiting,
           CoreClose, Reconnect, ClearResultCallbackPool, coreVars
<1> QED
    BY <1>1, <1>2, HandsStay

LEMMA SendHands ==
    ASSUME PlaceInv, ContentsFit, HandsFit, conn = "up" => UpFits,
           NEW t \in Threads, Send(t) \/ SendMute(t)
    PROVE  HandsFit'
<1> USE DEF PlaceInv
<1>0. HandlerType /\ ThreadType /\ CallType
    BY DEF TypeOK
<1>1. calls \in Nat /\ sent \subseteq 1 .. calls
    BY <1>0, ConstantsAssumption DEF CallType, ContentsFit
<1>2. CASE SendPrepare(t)
  <2> DEFINE p == hand'[t].pair
  <2>1. /\ calls' = calls + 1 /\ p \notin InUse /\ p \in Pair /\ hand'[t].call = calls'
        /\ pc[t] = "idle" /\ pc'[t] = "prepared" /\ Others(t)
        /\ content' = [content EXCEPT ![p] = calls']
    BY <1>2, PrepareEffect
  <2>2. UNCHANGED <<sent, csSend, conn>>
    BY <1>2 DEF SendPrepare, coreVars
  <2>3. Sending' = Sending \union {t} /\ t \notin Sending
    BY <2>1 DEF Sending, Others
  <2>4. /\ content'[p] = calls' /\ calls' \notin sent /\ calls' \in 1 .. calls'
        /\ calls' \notin 1 .. calls /\ 1 .. calls \subseteq 1 .. calls'
    BY <1>0, <1>1, <2>1 DEF HandlerType
  <2>5. \A u \in Sending : /\ pc'[u] = pc[u] /\ hand'[u] = hand[u]
                           /\ hand[u].call \in 1 .. calls /\ hand[u].pair \in Pair
    BY <1>0, <2>1, <2>3 DEF Others, Sending, HandsFit, HandFits, ThreadType
  <2>6. HandFits(t)'
    BY <2>1, <2>2, <2>3, <2>4, <2>5 DEF HandFits
  <2>7. ASSUME NEW u \in Sending
        PROVE  HandFits(u)'
    <3> DEFINE q == hand[u].pair
    <3>1. /\ HandFits(u) /\ pc'[u] = pc[u] /\ hand'[u] = hand[u] /\ q \in Pair
          /\ hand[u].call \in 1 .. calls
      BY <2>5 DEF HandsFit
    <3>2. \A v \in Sending' : hand'[v].call = hand'[u].call => v = u
      BY <2>1, <2>3, <2>4, <2>5, <3>1 DEF HandFits
    <3>3. content'[q] = content[q] \/ (q = p /\ content'[q] = calls')
      BY <1>0, <2>1, <3>1 DEF HandlerType
    <3>4. pc[u] = "prepared" => q # p
      BY <2>1, <2>3 DEF InUse, Held, Sending
    <3> HIDE DEF p
    <3>5. pc[u] = "prepared" => content'[q] = hand[u].call
      BY <3>1, <3>3, <3>4 DEF HandFits
    <3>6. pc[u] \in {"pushed", "failed"} => content'[q] \notin sent
      BY <2>4, <3>1, <3>3 DEF HandFits
    <3>7. pc[u] = "pushed" => csSend = u
      BY <3>1 DEF HandFits
    <3>8. pc[u] = "failed" => conn # "up"
      BY <3>1 DEF HandFits
    <3>9. hand[u].call \notin sent /\ hand[u].call \in 1 .. calls'
      BY <2>4, <3>1 DEF HandFits
    <3> QED
      BY <2>2, <3>1, <3>2, <3>5, <3>6, <3>7, <3>8, <3>9 DEF HandFits
  <2> QED
    BY <2>3, <2>6, <2>7 DEF HandsFit
<1>3. CASE SendPush(t)
  <2>1. /\ pc[t] = "prepared" /\ pc'[t] = "pushed" /\ hand' = hand
        /\ csSend = NoThread /\ csSend' = t /\ Others(t)
    BY <1>3, PushEffect
  <2>2. UNCHANGED <<content, sent, calls, conn>>
    BY <1>3 DEF SendPush, coreVars, callVars
  <2>3. Sending' = Sending /\ t \in Sending
    BY <2>1 DEF Sending, Others
  <2>4. ASSUME NEW u \in Sending, u # t
        PROVE  HandFits(u)'
    <3>1. HandFits(u) /\ pc'[u] = pc[u] /\ u \in Threads
      BY <2>1, <2>4 DEF HandsFit, Others, Sending
    <3>2. pc[u] # "pushed"
      BY <2>1, <3>1, ConstantsAssumption DEF HandFits
    <3> QED
      BY <2>1, <2>2, <2>3, <3>1, <3>2 DEF HandFits
  <2>5. HandFits(t)'
    BY <2>1, <2>2, <2>3 DEF HandsFit, HandFits
  <2> QED
    BY <2>3, <2>4, <2>5 DEF HandsFit
<1>4. CASE SendCore(t) /\ conn = "up"
  <2>1. /\ pc[t] = "pushed" /\ pc' = [pc EXCEPT ![t] = "idle"]
        /\ hand' = [hand EXCEPT ![t] = NoHand]
        /\ sent' = sent \union {hand[t].call}
        /\ UNCHANGED <<content, calls, conn>>
    BY <1>4 DEF SendCore, handlerVars
  <2>2. pc'[t] = "idle" /\ Others(t)
    BY <1>0, <2>1 DEF ThreadType, Others
  <2>3. Sending' = Sending \ {t} /\ t \in Sending
    BY <2>1, <2>2 DEF Sending, Others
  <2>4. ASSUME NEW u \in Sending, u # t
        PROVE  HandFits(u)'
    <3>1. HandFits(u) /\ HandFits(t) /\ pc'[u] = pc[u] /\ hand'[u] = hand[u]
      BY <2>2, <2>3, <2>4 DEF HandsFit, Others, Sending
    <3>2. pc[u] # "pushed" /\ pc[u] # "failed"
      BY <1>4, <2>1, <2>4, <3>1 DEF HandFits
    <3>3. hand[u].call # hand[t].call
      BY <2>3, <2>4, <3>1 DEF HandFits
    <3>4. \A v \in Sending' : hand'[v].call = hand'[u].call => v = u
      BY <2>2, <2>3, <3>1 DEF HandFits, Others, Sending
    <3> QED
      BY <2>1, <3>1, <3>2, <3>3, <3>4 DEF HandFits
  <2> QED
    BY <2>3, <2>4 DEF HandsFit
<1>5. CASE SendCore(t) /\ conn # "up"
  <2>1. /\ pc[t] = "pushed" /\ pc' = [pc EXCEPT ![t] = "failed"] /\ csSend' = NoThread
        /\ UNCHANGED <<content, calls, conn, hand, sent>>
    BY <1>5 DEF SendCore, handlerVars
  <2>2. pc'[t] = "failed" /\ Others(t)
    BY <1>0, <2>1 DEF ThreadType, Others
  <2>3. Sending' = Sending /\ t \in Sending
    BY <2>1, <2>2 DEF Sending, Others
  <2>4. ASSUME NEW u \in Sending, u # t
        PROVE  HandFits(u)'
    <3>1. HandFits(u) /\ HandFits(t) /\ pc'[u] = pc[u]
      BY <2>2, <2>3, <2>4 DEF HandsFit, Others, Sending
    <3>2. pc[u] # "pushed"
      BY <2>1, <2>4, <3>1 DEF HandFits
    <3> QED
      BY <2>1, <2>3, <3>1, <3>2 DEF HandFits
  <2>5. HandFits(t)'
    BY <1>5, <2>1, <2>2, <2>3 DEF HandsFit, HandFits
  <2> QED
    BY <2>3, <2>4, <2>5 DEF HandsFit
<1>6. CASE SendUndo(t)
  <2>1. pc[t] = "failed" /\ pc'[t] = "idle" /\ Others(t)
    BY <1>6, UndoEffect
  <2>2. UNCHANGED <<content, calls, conn, sent, csSend>>
    BY <1>6 DEF SendUndo, coreVars, callVars
  <2>3. Sending' = Sending \ {t}
    BY <2>1 DEF Sending, Others
  <2>4. ASSUME NEW u \in Sending, u # t
        PROVE  HandFits(u)'
    <3>1. HandFits(u) /\ pc'[u] = pc[u] /\ hand'[u] = hand[u]
      BY <2>1, <2>4 DEF HandsFit, Others, Sending
    <3>2. \A v \in Sending' : hand'[v].call = hand'[u].call => v = u
      BY <2>1, <2>3, <3>1 DEF HandFits, Others, Sending
    <3> QED
      BY <2>2, <3>1, <3>2 DEF HandFits
  <2> QED
    BY <2>3, <2>4 DEF HandsFit
<1>7. CASE SendMute(t)
  <2>1. /\ calls' = calls + 1 /\ UNCHANGED <<content, pc, hand, csSend, conn>>
        /\ sent' = IF conn = "up" THEN sent \union {calls'} ELSE sent
    BY <1>7 DEF SendMute, handlerVars, threadVars
  <2>2. Sending' = Sending /\ calls' \notin 1 .. calls /\ 1 .. calls \subseteq 1 .. calls'
    BY <1>1, <2>1 DEF Sending
  <2>3. ASSUME NEW u \in Sending
        PROVE  HandFits(u)'
    <3>1. HandFits(u) /\ u \in Threads
      BY DEF HandsFit, Sending
    <3>2. hand[u].call \in 1 .. calls' /\ hand[u].call \notin sent'
      BY <2>1, <2>2, <3>1 DEF HandFits
    <3>3. pc[u] \in {"pushed", "failed"} => content[hand[u].pair] \notin sent'
      <4>1. CASE conn = "up" /\ pc[u] \in {"pushed", "failed"}
        <5>1. pc[u] = "pushed"
          BY <3>1, <4>1 DEF HandFits
        <5>2. content[hand[u].pair] = hand[u].call
          BY <3>1, <4>1, <5>1 DEF UpFits, BatchApart
        <5> QED
          BY <3>2, <5>2
      <4>2. CASE conn # "up"
        BY <2>1, <3>1, <4>2 DEF HandFits
      <4> QED
        BY <4>1, <4>2
    <3> QED
      BY <2>1, <2>2, <3>1, <3>2, <3>3 DEF HandFits
  <2> QED
    BY <2>2, <2>3 DEF HandsFit
<1> QED
    BY <1>2, <1>3, <1>4, <1>5, <1>6, <1>7 DEF Send
----------------------------------------------------------------------------
(* The thread that batches, and the core.                                  *)
LEMMA SendBatch ==
    ASSUME PlaceInv, BatchFits, Exclusive, NEW t \in Threads, Send(t) \/ SendMute(t)
    PROVE  BatchFits'
<1> USE DEF PlaceInv
<1>0. ThreadType
    BY DEF TypeOK
<1>1. UNCHANGED <<batchers, coreBatching>>
    BY DEF Send, SendPrepare, SendPush, SendCore, SendUndo, SendMute, threadVars, coreVars
<1>2. \/ SendPrepare(t) /\ pc' = [pc EXCEPT ![t] = "prepared"] /\ pc[t] = "idle"
      \/ /\ pc[t] \in {"prepared", "pushed", "failed"}
         /\ \E x \in {"idle", "pushed", "failed"} : pc' = [pc EXCEPT ![t] = x]
      \/ pc' = pc
    BY DEF Send, SendPrepare, MaySend, SendPush, SendCore, SendUndo, SendMute, threadVars
<1>3. \A u \in Threads : pc'[u] \in {"committing", "aborting"} =>
                         pc[u] \in {"committing", "aborting"}
    BY <1>0, <1>2 DEF ThreadType
<1>4. SendPrepare(t) => batchers \subseteq {t}
    BY DEF SendPrepare, MaySend
<1>5. \A u \in Threads : u # t => pc'[u] = pc[u]
    BY <1>0, <1>2 DEF ThreadType
<1>6. batchers # {} => Sending' \subseteq batchers
  <2>1. CASE SendPrepare(t)
    <3>1. Sending' \subseteq Sending \union {t}
      BY <1>5 DEF Sending
    <3> QED
      BY <1>4, <2>1, <3>1 DEF BatchFits
  <2>2. CASE ~SendPrepare(t)
    <3>1. Sending' \subseteq Sending
      BY <1>2, <1>5, <2>2 DEF Sending
    <3> QED
      BY <3>1 DEF BatchFits
  <2> QED
    BY <2>1, <2>2
<1> QED
    BY <1>1, <1>3, <1>6 DEF BatchFits

LEMMA OutsideBatch ==
    ASSUME PlaceInv, BatchFits, Exclusive, NEW t \in Threads, Outside(t)
    PROVE  BatchFits'
<1> USE DEF PlaceInv
<1>0. ThreadType
    BY DEF TypeOK
<1>1. Sending' = Sending /\ \A u \in Threads : u # t => pc'[u] = pc[u]
    BY OutsideEffect
<1>2. CASE StartBatching(t)
  <2>1. Sending = {} /\ batchers = {} /\ batchers' = {t} /\ pc' = pc
    BY <1>2 DEF StartBatching
  <2> QED
    BY <1>1, <2>1 DEF BatchFits
<1>3. CASE CommitBatchingMove(t) \/ AbortBatchingClean(t)
  <2>1. t \in batchers /\ UNCHANGED <<batchers, coreBatching>>
    BY <1>3 DEF CommitBatchingMove, AbortBatchingClean, coreVars
  <2> QED
    BY <1>1, <2>1 DEF BatchFits
<1>4. CASE CommitBatchingCore(t) \/ AbortBatchingCore(t)
  <2>1. /\ pc[t] \in {"committing", "aborting"} /\ batchers' = batchers \ {t}
        /\ coreBatching' = FALSE /\ pc' = [pc EXCEPT ![t] = "idle"]
    BY <1>4 DEF CommitBatchingCore, AbortBatchingCore
  <2>2. batchers' = {} /\ pc'[t] = "idle"
    BY <1>0, <2>1 DEF BatchFits, ThreadType
  <2>3. \A u \in Threads : pc'[u] \notin {"committing", "aborting"}
    BY <1>1, <2>1, <2>2 DEF BatchFits
  <2> QED
    BY <2>1, <2>2, <2>3 DEF BatchFits
<1>5. CASE Cancel(t)
  <2>1. UNCHANGED <<batchers, coreBatching, pc>>
    BY <1>5 DEF Cancel, threadVars
  <2> QED
    BY <1>1, <2>1 DEF BatchFits
<1> QED
    BY <1>2, <1>3, <1>4, <1>5 DEF Outside, Batch

LEMMA DeliveryBatch ==
    ASSUME BatchFits, Delivery
    PROVE  BatchFits'
<1>1. UNCHANGED <<pc, batchers>> /\ Sending' = Sending
    BY DeliveryEffect
<1>2. coreBatching' = coreBatching \/ coreBatching' = FALSE
    BY DEF Delivery, Clear, Worker, OnRequestProcessed, OnServerException, Answer,
           OnCanceled, OnSocketClosed, CleanCallbacksBatching, CleanCallbacksWaiting,
           CoreClose, Reconnect, ClearResultCallbackPool, coreVars
<1> QED
    BY <1>1, <1>2 DEF BatchFits

LEMMA SendCoreFits ==
    ASSUME PlaceInv, CoreFits, QuietCancel, NEW t \in Threads, Send(t) \/ SendMute(t)
    PROVE  CoreFits'
<1>1. canceling = -1
  <2>1. CASE SendPrepare(t) \/ SendMute(t)
    BY <2>1 DEF SendPrepare, SendMute, MaySend
  <2>2. CASE pc[t] \in {"prepared", "pushed", "failed"}
    BY <2>2 DEF CoreFits, Sending
  <2> QED
    BY <2>1, <2>2 DEF Send, SendPush, SendCore, SendUndo
<1>2. UNCHANGED <<conn, coreBatching, canceling>>
    BY DEF Send, SendPrepare, SendPush, SendCore, SendUndo, SendMute, coreVars
<1>3. conn # "up" => UNCHANGED <<wire, batchBuf>>
    BY DEF Send, SendPrepare, SendPush, SendCore, SendUndo, SendMute, coreVars
<1> QED
    BY <1>1, <1>2, <1>3 DEF CoreFits

LEMMA OutsideCore ==
    ASSUME PlaceInv, CoreFits, BatchFits, QuietCancel, conn = "up" => UpFits,
           NEW t \in Threads, Outside(t)
    PROVE  CoreFits'
<1>0. CoreType
    BY DEF PlaceInv, TypeOK
<1>1. Sending' = Sending /\ conn' = conn
    BY OutsideEffect
<1>2. CASE StartBatching(t) \/ CommitBatchingMove(t) \/ AbortBatchingClean(t)
  <2>1. \/ UNCHANGED <<wire, batchBuf, canceling>> /\ conn = "up"
        \/ UNCHANGED coreVars
    BY <1>2 DEF StartBatching, CommitBatchingMove, AbortBatchingClean
  <2> QED
    BY <1>1, <2>1 DEF CoreFits, coreVars
<1>3. CASE CommitBatchingCore(t)
  <2>1. /\ wire' = wire \o batchBuf /\ batchBuf' = <<>> /\ coreBatching' = FALSE
        /\ canceling' = canceling
    BY <1>3 DEF CommitBatchingCore
  <2>2. batchBuf = <<>> => wire' = wire
    BY <1>0, <2>1, ConcatEmptySeq DEF CoreType
  <2> QED
    BY <1>1, <2>1, <2>2 DEF CoreFits
<1>4. CASE AbortBatchingCore(t)
  <2>1. batchBuf' = <<>> /\ coreBatching' = FALSE /\ UNCHANGED <<wire, canceling>>
    BY <1>4 DEF AbortBatchingCore
  <2> QED
    BY <1>1, <2>1 DEF CoreFits
<1>5. CASE Cancel(t)
  <2>1. /\ Sending = {} /\ batchers = {} /\ conn = "up" /\ canceling' = Len(wire)
        /\ UNCHANGED <<wire, batchBuf>>
    BY <1>5 DEF Cancel
  <2>2. batchBuf = <<>>
    BY <2>1 DEF UpFits, BatchApart, BatchFits
  <2> QED
    BY <1>1, <2>1, <2>2 DEF CoreFits
<1> QED
    BY <1>2, <1>3, <1>4, <1>5 DEF Outside, Batch

LEMMA DeliveryCore ==
    ASSUME PlaceInv, ContentsFit, CoreFits, conn = "up" => UpFits, ~Random, Delivery
    PROVE  CoreFits' /\ (GotFits => GotFits')
<1> USE DEF PlaceInv
<1>0. CoreType /\ CallType
    BY DEF TypeOK
<1>1. Sending' = Sending
    BY DeliveryEffect
<1>2. ASSUME NEW how, Answer(how)
      PROVE  CoreFits' /\ (GotFits => GotFits')
  <2>1. /\ conn = "up" /\ UpFits /\ UNCHANGED <<conn, batchBuf>>
    BY <1>2 DEF Answer
  <2>2. /\ 1 \in DOMAIN wire /\ wire' = RemoveAt(wire, 1)
        /\ canceling' = IF 1 <= canceling THEN canceling - 1 ELSE canceling
        /\ got' = got \/ got' = [got EXCEPT ![wire[1]] = wire[1]]
    BY <1>2, <2>1, AnswerEffect
  <2>3. 1 \in 1 .. Len(wire) /\ Len(wire) \in Nat /\ wire \in Seq(Call)
    BY <1>0, <2>2, LenProperties DEF CoreType
  <2>4. Len(wire') = Len(wire) - 1
    BY <2>2, <2>3, RemoveAtProperties
  <2>5. canceling' # -1 => canceling # -1 /\ canceling' = canceling - 1
    BY <1>0, <2>2, <2>3 DEF CoreType, CoreFits
  <2>6. CoreFits'
    BY <1>1, <2>1, <2>3, <2>4, <2>5 DEF CoreFits
  <2>7. \A c \in Call : got'[c] = got[c] \/ got'[c] = c
    BY <1>0, <2>2 DEF CallType
  <2> QED
    BY <2>6, <2>7 DEF GotFits
<1>3. CASE OnCanceled
  <2>1. conn = "up" /\ conn' = conn /\ canceling' = -1 /\ got' = got
    BY <1>3 DEF OnCanceled, callVars
  <2> QED
    BY <2>1 DEF CoreFits, GotFits
<1>4. CASE OnSocketClosed
  <2>1. conn = "closing" /\ UNCHANGED <<coreBatching, batchBuf, wire, canceling, got>>
    BY <1>4 DEF OnSocketClosed, callVars
  <2> QED
    BY <2>1 DEF CoreFits, GotFits
<1>5. CASE CleanCallbacksBatching \/ CleanCallbacksWaiting \/ Clear
  <2>1. UNCHANGED <<conn, coreBatching, batchBuf, wire, canceling, got>>
    BY <1>5 DEF CleanCallbacksBatching, CleanCallbacksWaiting, Clear,
                ClearResultCallbackPool, coreVars, callVars
  <2> QED
    BY <1>1, <2>1 DEF CoreFits, GotFits
<1>6. CASE CoreClose
  <2>1. /\ wire' = <<>> /\ batchBuf' = <<>> /\ coreBatching' = FALSE /\ canceling' = -1
        /\ got' = got
    BY <1>6 DEF CoreClose, callVars
  <2> QED
    BY <2>1 DEF CoreFits, GotFits
<1>7. CASE Reconnect
  <2>1. conn = "down" /\ conn' = "up" /\ UNCHANGED <<canceling, got>>
    BY <1>7 DEF Reconnect, callVars
  <2> QED
    BY <2>1 DEF CoreFits, GotFits
<1> QED
    BY <1>2, <1>3, <1>4, <1>5, <1>6, <1>7
       DEF Delivery, Worker, OnRequestProcessed, OnServerException
----------------------------------------------------------------------------
(* Without a connection the queues only hold what is about to be undone.   *)
LEMMA SendDown ==
    ASSUME PlaceInv, DownFits, conn = "down", NEW t \in Threads, Send(t) \/ SendMute(t)
    PROVE  DownFits'
<1> USE DEF PlaceInv
<1>0. ThreadType
    BY DEF TypeOK
<1>1. CASE SendPrepare(t)
  <2>1. pc[t] = "idle" /\ Others(t)
    BY <1>1, PrepareEffect
  <2>2. UNCHANGED <<vCallback, vBatching>>
    BY <1>1 DEF SendPrepare
  <2>3. \A u \in Threads : pc[u] \in {"pushed", "failed"} =>
            pc'[u] = pc[u] /\ hand'[u] = hand[u]
    BY <2>1 DEF Others
  <2> QED
    BY <2>2, <2>3 DEF DownFits
<1>2. CASE SendPush(t)
  <2>1. /\ pc[t] = "prepared" /\ pc'[t] = "pushed" /\ hand' = hand /\ Others(t)
        /\ hand[t].batching =>
            /\ Range(vBatching') = Range(vBatching) \union {hand[t].pair}
            /\ vCallback' = vCallback
        /\ ~hand[t].batching =>
            /\ Range(vCallback') = Range(vCallback) \union {hand[t].pair}
            /\ vBatching' = vBatching
    BY <1>2, PushEffect
  <2>2. \A u \in Threads : pc[u] \in {"pushed", "failed"} => pc'[u] = pc[u]
    BY <2>1 DEF Others
  <2>3. ASSUME NEW p \in Range(vCallback')
        PROVE  \E u \in Threads :
            pc'[u] \in {"pushed", "failed"} /\ ~hand'[u].batching /\ hand'[u].pair = p
    <3>1. p \in Range(vCallback) \/ (~hand[t].batching /\ p = hand[t].pair)
      BY <2>1
    <3> QED
      BY <2>1, <2>2, <3>1 DEF DownFits
  <2>4. ASSUME NEW p \in Range(vBatching')
        PROVE  \E u \in Threads :
            pc'[u] \in {"pushed", "failed"} /\ hand'[u].batching /\ hand'[u].pair = p
    <3>1. p \in Range(vBatching) \/ (hand[t].batching /\ p = hand[t].pair)
      BY <2>1
    <3> QED
      BY <2>1, <2>2, <3>1 DEF DownFits
  <2> QED
    BY <2>3, <2>4 DEF DownFits
<1>3. CASE SendCore(t)
  <2>1. /\ pc' = [pc EXCEPT ![t] = "failed"]
        /\ UNCHANGED <<hand, vCallback, vBatching>>
    BY <1>3 DEF SendCore, handlerVars
  <2>2. \A u \in Threads : pc[u] \in {"pushed", "failed"} =>
            pc'[u] \in {"pushed", "failed"}
    BY <1>0, <2>1 DEF ThreadType
  <2> QED
    BY <2>1, <2>2 DEF DownFits
<1>4. CASE SendUndo(t)
  <2>1. /\ pc'[t] = "idle" /\ Others(t)
        /\ hand[t].batching =>
            /\ Range(vBatching') = Range(vBatching) \ {hand[t].pair}
            /\ vCallback' = vCallback
        /\ ~hand[t].batching =>
            /\ Range(vCallback') = Range(vCallback) \ {hand[t].pair}
            /\ vBatching' = vBatching
    BY <1>4, UndoEffect
  <2>2. \A u \in Threads : u # t => pc'[u] = pc[u] /\ hand'[u] = hand[u]
    BY <2>1 DEF Others
  <2>3. ASSUME NEW p \in Range(vCallback')
        PROVE  \E u \in Threads :
            pc'[u] \in {"pushed", "failed"} /\ ~hand'[u].batching /\ hand'[u].pair = p
    <3>1. p \in Range(vCallback) /\ (hand[t].batching \/ p # hand[t].pair)
      BY <2>1
    <3>2. PICK u \in Threads :
            pc[u] \in {"pushed", "failed"} /\ ~hand[u].batching /\ hand[u].pair = p
      BY <3>1 DEF DownFits
    <3> QED
      BY <2>2, <3>1, <3>2
  <2>4. ASSUME NEW p \in Range(vBatching')
        PROVE  \E u \in Threads :
            pc'[u] \in {"pushed", "failed"} /\ hand'[u].batching /\ hand'[u].pair = p
    <3>1. p \in Range(vBatching) /\ (~hand[t].batching \/ p # hand[t].pair)
      BY <2>1
    <3>2. PICK u \in Threads :
            pc[u] \in {"pushed", "failed"} /\ hand[u].batching /\ hand[u].pair = p
      BY <3>1 DEF DownFits
    <3> QED
      BY <2>2, <3>1, <3>2
  <2> QED
    BY <2>3, <2>4 DEF DownFits
<1>5. CASE SendMute(t)
  <2>1. UNCHANGED <<pc, hand, vCallback, vBatching>>
    BY <1>5 DEF SendMute, handlerVars, threadVars
  <2> QED
    BY <2>1 DEF DownFits
<1> QED
    BY <1>1, <1>2, <1>3, <1>4, <1>5 DEF Send

LEMMA NobodyReturns ==
    ASSUME PlaceInv, DownFits, Sending = {}
    PROVE  vCallback = <<>> /\ vBatching = <<>>
<1>0. HandlerType
    BY DEF PlaceInv, TypeOK
<1>1. Range(vCallback) = {} /\ Range(vBatching) = {}
    BY DEF DownFits, Sending
<1>2. ASSUME NEW q \in Seq(Pair), q # <<>>
      PROVE  Range(q) # {}
  <2>1. 1 \in DOMAIN q
    BY <1>2, EmptySeq, LenProperties
  <2>2. q[1] \in Range(q)
    BY <2>1 DEF Range
  <2> QED
    BY <2>2
<1> QED
    BY <1>0, <1>1, <1>2 DEF HandlerType

(* The thread that commits or aborts is the only one that may send.        *)
LEMMA BatcherAlone ==
    ASSUME BatchFits, NEW t \in batchers, t \notin Sending
    PROVE  Sending = {} /\ \A u \in Threads : pc[u] \in {"committing", "aborting"} => u = t
BY DEF BatchFits

LEMMA OutsideDown ==
    ASSUME PlaceInv, BatchFits, DownFits, conn = "down", NEW t \in Threads, Outside(t)
    PROVE  DownFits'
<1>1. /\ hand' = hand
      /\ \A u \in Threads : pc[u] \in {"pushed", "failed"} => pc'[u] = pc[u]
  <2>1. hand' = hand /\ \A u \in Sending : pc'[u] = pc[u]
    BY OutsideEffect
  <2> QED
    BY <2>1 DEF Sending
<1>2. CASE CommitBatchingMove(t)
  <2>1. t \in batchers /\ pc[t] = "idle"
        /\ vCallback' = vCallback \o vBatching /\ vBatching' = <<>>
    BY <1>2 DEF CommitBatchingMove
  <2>2. Sending = {}
    BY <2>1, BatcherAlone DEF Sending
  <2>3. vCallback = <<>> /\ vBatching = <<>>
    BY <2>2, NobodyReturns
  <2>4. vCallback' = <<>>
    BY <2>1, <2>3
  <2> QED
    BY <2>1, <2>4, EmptyInjective DEF DownFits
<1>3. CASE AbortBatchingClean(t)
  <2>1. vBatching' = <<>> /\ vCallback' = vCallback
    BY <1>3 DEF AbortBatchingClean
  <2> QED
    BY <1>1, <2>1, EmptyInjective DEF DownFits
<1>4. CASE CommitBatchingCore(t) \/ AbortBatchingCore(t)
  <2>1. UNCHANGED <<vCallback, vBatching>>
    BY <1>4 DEF CommitBatchingCore, AbortBatchingCore, handlerVars
  <2> QED
    BY <1>1, <2>1 DEF DownFits
<1> QED
    BY <1>2, <1>3, <1>4 DEF Outside, Batch, StartBatching, Cancel

LEMMA DeliveryDown ==
    ASSUME conn = "down" => DownFits, Delivery, conn' = "down"
    PROVE  DownFits'
<1>1. UNCHANGED <<pc, hand>>
    BY DeliveryEffect
<1>2. CASE OnSocketClosed
  <2>1. vCallback' = <<>> /\ vBatching' = <<>>
    BY <1>2 DEF OnSocketClosed, CleanCallbacksSwap
  <2> QED
    BY <2>1, EmptyInjective DEF DownFits
<1>3. CASE CleanCallbacksBatching \/ CleanCallbacksWaiting \/ Clear
  <2>1. UNCHANGED <<vCallback, vBatching, conn>>
    BY <1>3 DEF CleanCallbacksBatching, CleanCallbacksWaiting, Clear,
                ClearResultCallbackPool, coreVars
  <2> QED
    BY <1>1, <2>1 DEF DownFits
<1> QED
    BY <1>2, <1>3 DEF Delivery, Worker, OnRequestProcessed, OnServerException,
                      Answer, OnCanceled, CoreClose, Reconnect
----------------------------------------------------------------------------
(* Requests that wait in line, when a pair or a request is added behind,   *)
(* and when some are taken away.                                           *)
LEMMA InLinePair ==
    ASSUME NEW S, NEW T, NEW f, NEW q \in Seq(S), NEW w \in Seq(T),
           InLine(f, q, w), NEW p \in S, f[p] \notin Range(w)
    PROVE  InLine(f, Append(q, p), w)
<1> DEFINE r == Append(q, p)
<1>1. /\ Len(q) \in Nat /\ DOMAIN q = 1 .. Len(q)
      /\ r \in Seq(S) /\ DOMAIN r = 1 .. Len(q) + 1
      /\ \A i \in 1 .. Len(q) : r[i] = q[i]
      /\ r[Len(q) + 1] = p
    BY LenProperties, AppendProperties
<1> HIDE DEF r
<1>2. ASSUME NEW j \in DOMAIN r, f[r[j]] \in Range(w)
      PROVE  j \in DOMAIN q
    BY <1>1, <1>2
<1>3. ASSUME NEW i \in DOMAIN r, NEW j \in DOMAIN r, i < j, f[r[j]] \in Range(w)
      PROVE  i \in DOMAIN q /\ j \in DOMAIN q /\ r[i] = q[i] /\ r[j] = q[j]
    BY <1>1, <1>2, <1>3
<1>4. ASSUME NEW i \in DOMAIN r, NEW j \in DOMAIN r, NEW k \in DOMAIN w,
             NEW l \in DOMAIN w, i < j, f[r[i]] = w[k], f[r[j]] = w[l]
      PROVE  k < l
  <2>1. f[r[j]] \in Range(w)
    BY <1>4 DEF Range
  <2> QED
    BY <1>3, <1>4, <2>1 DEF InLine
<1>5. ASSUME NEW i \in DOMAIN r, NEW j \in DOMAIN r, i < j, f[r[j]] \in Range(w)
      PROVE  f[r[i]] \in Range(w)
    BY <1>3, <1>5 DEF InLine
<1> QED
    BY <1>4, <1>5 DEF InLine, r

LEMMA InLineRequest ==
    ASSUME NEW T, NEW f, NEW q, DOMAIN q \subseteq Int, NEW w \in Seq(T),
           InLine(f, q, w), NEW c \in T, c \notin Range(w),
           \A i, j \in DOMAIN q : f[q[i]] = f[q[j]] => i = j,
           \A i, j \in DOMAIN q : i < j /\ f[q[j]] = c => f[q[i]] \in Range(w)
    PROVE  InLine(f, q, Append(w, c))
<1> DEFINE r == Append(w, c)
<1>1. /\ Len(w) \in Nat /\ DOMAIN w = 1 .. Len(w)
      /\ r \in Seq(T) /\ DOMAIN r = 1 .. Len(w) + 1
      /\ \A i \in 1 .. Len(w) : r[i] = w[i]
      /\ r[Len(w) + 1] = c
    BY LenProperties, AppendProperties
<1> HIDE DEF r
<1>2. Range(r) = Range(w) \union {c}
    BY <1>1 DEF Range
<1>3. ASSUME NEW i \in DOMAIN q, NEW j \in DOMAIN q, NEW k \in DOMAIN r,
             NEW l \in DOMAIN r, i < j, f[q[i]] = r[k], f[q[j]] = r[l]
      PROVE  k < l
  <2>1. CASE k \in DOMAIN w /\ l \in DOMAIN w
    BY <1>1, <1>3, <2>1 DEF InLine
  <2>2. CASE k \in DOMAIN w /\ l = Len(w) + 1
    BY <1>1, <2>2
  <2>3. CASE k = Len(w) + 1
    <3>1. f[q[i]] = c
      BY <1>1, <1>3, <2>3
    <3>2. f[q[j]] # c
      BY <1>3, <3>1
    <3>3. f[q[j]] \in Range(w)
      BY <1>1, <1>3, <3>2 DEF Range
    <3>4. f[q[i]] \in Range(w)
      BY <1>3, <3>3 DEF InLine
    <3> QED
      BY <3>1, <3>4
  <2> QED
    BY <1>1, <2>1, <2>2, <2>3
<1>4. ASSUME NEW i \in DOMAIN q, NEW j \in DOMAIN q, i < j, f[q[j]] \in Range(r)
      PROVE  f[q[i]] \in Range(r)
    BY <1>2, <1>4 DEF InLine
<1> QED
    BY <1>3, <1>4 DEF InLine, r

LEMMA InLinePrefix ==
    ASSUME NEW S, NEW f, NEW a \in Seq(S), NEW b \in Seq(S), NEW w, InLine(f, a \o b, w)
    PROVE  InLine(f, a, w)
<1> DEFINE q == a \o b
<1>1. \A i \in DOMAIN a : i \in DOMAIN q /\ q[i] = a[i]
    BY LenProperties, ConcatProperties
<1> HIDE DEF q
<1>2. InLine(f, q, w)
    BY DEF q
<1> QED
    BY <1>1, <1>2 DEF InLine

LEMMA InLineSent ==
    ASSUME NEW T, NEW f, NEW q, NEW a \in Seq(T), NEW b \in Seq(T), InLine(f, q, a \o b),
           \A i \in DOMAIN q : f[q[i]] \in Range(a)
    PROVE  InLine(f, q, a)
<1> DEFINE w == a \o b
<1>1. \A k \in DOMAIN a : k \in DOMAIN w /\ w[k] = a[k]
    BY LenProperties, ConcatProperties
<1> HIDE DEF w
<1>2. InLine(f, q, w)
    BY DEF w
<1> QED
    BY <1>1, <1>2 DEF InLine

(* r is s without its first element.                                       *)
Rest(r, s) ==
    /\ Len(s) \in Nat \ {0} /\ DOMAIN s = 1 .. Len(s) /\ DOMAIN r = 1 .. Len(s) - 1
    /\ \A i \in 1 .. Len(s) - 1 : r[i] = s[i + 1]

LEMMA RestOfConcat ==
    ASSUME NEW S, NEW a \in Seq(S), NEW b \in Seq(S), 1 \in DOMAIN a
    PROVE  Rest(RemoveAt(a, 1) \o b, a \o b)
<1> DEFINE t == RemoveAt(a, 1)
<1>0. 1 \in 1 .. Len(a) /\ Len(a) \in Nat /\ Len(b) \in Nat /\ Len(a) # 0
    BY LenProperties
<1>1. /\ t \in Seq(S) /\ Len(t) = Len(a) - 1
      /\ \A j \in 1 .. Len(a) - 1 : t[j] = a[j + 1]
    BY <1>0, RemoveAtProperties
<1> HIDE DEF t
<1>2. /\ Len(t \o b) = Len(a) - 1 + Len(b) /\ t \o b \in Seq(S)
      /\ \A i \in 1 .. Len(a) - 1 + Len(b) :
            (t \o b)[i] = IF i <= Len(a) - 1 THEN t[i] ELSE b[i - (Len(a) - 1)]
  <2>1. /\ Len(t \o b) = Len(t) + Len(b) /\ t \o b \in Seq(S)
        /\ \A i \in 1 .. Len(t) + Len(b) :
              (t \o b)[i] = IF i <= Len(t) THEN t[i] ELSE b[i - Len(t)]
    BY <1>1, ConcatProperties
  <2> QED
    BY <1>1, <2>1
<1>3. /\ Len(a \o b) = Len(a) + Len(b) /\ a \o b \in Seq(S)
      /\ \A i \in 1 .. Len(a) + Len(b) :
            (a \o b)[i] = IF i <= Len(a) THEN a[i] ELSE b[i - Len(a)]
    BY ConcatProperties
<1>4. ASSUME NEW i \in 1 .. Len(a) + Len(b) - 1
      PROVE  (t \o b)[i] = (a \o b)[i + 1]
  <2>1. CASE i <= Len(a) - 1
    BY <1>0, <1>1, <1>2, <1>3, <2>1
  <2>2. CASE ~(i <= Len(a) - 1)
    <3>1. i - (Len(a) - 1) = (i + 1) - Len(a)
      BY <1>0
    <3> QED
      BY <1>0, <1>2, <1>3, <2>2, <3>1
  <2> QED
    BY <2>1, <2>2
<1>5. DOMAIN (t \o b) = 1 .. Len(a) + Len(b) - 1 /\ DOMAIN (a \o b) = 1 .. Len(a) + Len(b)
    BY <1>0, <1>2, <1>3, LenProperties
<1> QED
    BY <1>0, <1>3, <1>4, <1>5 DEF Rest, t

LEMMA InLineNext ==
    ASSUME NEW f, NEW q, NEW w, NEW v, InLine(f, q, w), Rest(v, w),
           \A i \in DOMAIN q : f[q[i]] # w[1]
    PROVE  InLine(f, q, v)
<1>1. Range(w) \ {w[1]} \subseteq Range(v)
  <2>1. ASSUME NEW k \in DOMAIN w, w[k] # w[1]
        PROVE  \E l \in DOMAIN v : w[k] = v[l]
    <3>1. k - 1 \in DOMAIN v /\ v[k - 1] = w[k]
      BY <2>1 DEF Rest
    <3> QED
      BY <3>1
  <2> QED
    BY <2>1 DEF Range
<1>0. Range(v) \subseteq Range(w)
  <2>1. \A l \in DOMAIN v : \E k \in DOMAIN w : v[l] = w[k]
    BY DEF Rest
  <2> QED
    BY <2>1 DEF Range
<1>2. ASSUME NEW i \in DOMAIN q, NEW j \in DOMAIN q, NEW k \in DOMAIN v,
             NEW l \in DOMAIN v, i < j, f[q[i]] = v[k], f[q[j]] = v[l]
      PROVE  k < l
  <2>1. /\ k + 1 \in DOMAIN w /\ l + 1 \in DOMAIN w /\ w[k + 1] = v[k] /\ w[l + 1] = v[l]
        /\ k \in Int /\ l \in Int
    BY DEF Rest
  <2>2. k + 1 < l + 1
    BY <1>2, <2>1 DEF InLine
  <2> QED
    BY <2>1, <2>2
<1>3. ASSUME NEW i \in DOMAIN q, NEW j \in DOMAIN q, i < j, f[q[j]] \in Range(v)
      PROVE  f[q[i]] \in Range(v)
    BY <1>0, <1>1, <1>3 DEF InLine
<1> QED
    BY <1>2, <1>3 DEF InLine

LEMMA InLinePopped ==
    ASSUME NEW f, NEW q, NEW r, NEW w, InLine(f, q, w), Rest(r, q)
    PROVE  InLine(f, r, w)
<1>1. ASSUME NEW i \in DOMAIN r, NEW j \in DOMAIN r, i < j
      PROVE  /\ i + 1 \in DOMAIN q /\ j + 1 \in DOMAIN q /\ i + 1 < j + 1
             /\ r[i] = q[i + 1] /\ r[j] = q[j + 1]
    BY <1>1 DEF Rest
<1> QED
    BY <1>1 DEF InLine
----------------------------------------------------------------------------
(* With a connection: SendRequest.                                         *)
LEMMA AppendConcat ==
    ASSUME NEW S, NEW a \in Seq(S), NEW b \in Seq(S), NEW x \in S
    PROVE  /\ a \o Append(b, x) = Append(a \o b, x)
           /\ b = <<>> => Append(a, x) \o b = Append(a \o b, x)
<1> DEFINE h == <<x>>
<1>1. /\ h \in Seq(S) /\ Append(b, x) = b \o h /\ Append(a \o b, x) = (a \o b) \o h
    BY SingletonInjective, AppendIsConcat, ConcatProperties
<1> HIDE DEF h
<1>2. a \o (b \o h) = (a \o b) \o h
    BY SMTT(30), <1>1, ConcatAssociative
<1>3. b = <<>> => a \o b = a
    BY ConcatEmptySeq
<1>4. b = <<>> => Append(a, x) \o b = Append(a, x)
    BY AppendProperties, ConcatEmptySeq
<1> QED
    BY <1>1, <1>2, <1>3, <1>4

LEMMA Shapes ==
    ASSUME PlaceInv
    PROVE  /\ vCallback \in Seq(Pair) /\ vBatching \in Seq(Pair)
           /\ wire \in Seq(Call) /\ batchBuf \in Seq(Call)
           /\ Pairs \in Seq(Pair) /\ IsInjective(Pairs) /\ DOMAIN Pairs \subseteq Int
           /\ Range(Pairs) = Range(vCallback) \union Range(vBatching)
           /\ Range(Pairs) \subseteq InUse
           /\ Requests \in Seq(Call)
           /\ Range(Requests) = Range(wire) \union Range(batchBuf)
<1>0. HandlerType /\ CoreType
    BY DEF PlaceInv, TypeOK
<1>1. /\ Pairs \in Seq(Pair) /\ IsInjective(Pairs)
      /\ Range(Pairs) = Range(vCallback) \union Range(vBatching)
  <2>1. Range(vCallback) \cap Range(vBatching) = {}
    BY DEF PlaceInv, OnePlace, PlacesApart
  <2> QED
    BY <1>0, <2>1, ConcatInjective DEF PlaceInv, OnePlace, QueuesInjective, HandlerType, Pairs
<1>2. /\ Requests \in Seq(Call)
      /\ Range(Requests) = Range(wire) \union Range(batchBuf)
    BY <1>0, ConcatProperties, RangeConcatenation DEF CoreType, Requests
<1>3. Range(Pairs) \subseteq InUse
    BY <1>1 DEF InUse, Queued
<1>4. DOMAIN Pairs \subseteq Int
    BY <1>1, LenProperties
<1> QED
    BY <1>0, <1>1, <1>2, <1>3, <1>4 DEF HandlerType, CoreType

LEMMA PairContents ==
    ASSUME PlaceInv, ContentsFit
    PROVE  /\ \A i, j \in DOMAIN Pairs : content[Pairs[i]] = content[Pairs[j]] => i = j
           /\ \A i \in DOMAIN Pairs : Pairs[i] \in InUse
<1>1. \A i \in DOMAIN Pairs : Pairs[i] \in InUse
    BY Shapes DEF Range
<1>2. \A i, j \in DOMAIN Pairs : Pairs[i] = Pairs[j] => i = j
    BY Shapes DEF IsInjective
<1> QED
    BY <1>1, <1>2 DEF ContentsFit

(* A thread that sends keeps others from committing or aborting.           *)
LEMMA SenderAlone ==
    ASSUME BatchFits, NEW t \in Sending
    PROVE  {"committing", "aborting"} \cap Stages = {}
<1>1. ASSUME NEW u \in Threads, pc[u] \in {"committing", "aborting"}
      PROVE  FALSE
  <2>1. u \in batchers /\ t \in batchers
    BY <1>1 DEF BatchFits
  <2>2. u = t
    BY <2>1 DEF BatchFits
  <2> QED
    BY <1>1, <2>2 DEF Sending
<1> QED
    BY <1>1 DEF Stages

LEMMA PrepareUp ==
    ASSUME PlaceInv, ContentsFit, UpFits, NEW t \in Threads, SendPrepare(t)
    PROVE  UpFits'
<1> DEFINE p == hand'[t].pair
<1>1. /\ p \in Pair /\ p \notin InUse /\ hand'[t].batching = coreBatching
      /\ pc[t] = "idle" /\ pc'[t] = "prepared" /\ Others(t)
      /\ content' = [content EXCEPT ![p] = calls']
    BY PrepareEffect
<1>2. UNCHANGED <<vCallback, vBatching, wire, batchBuf, coreBatching, idOf, sent>>
    BY DEF SendPrepare, coreVars
<1> HIDE DEF p
<1>3. \A q \in InUse : content'[q] = content[q]
    BY <1>1, InUsePairs DEF PlaceInv, TypeOK, HandlerType
<1>4. Range(vCallback) \subseteq InUse /\ Range(vBatching) \subseteq InUse
    BY DEF InUse, Queued
<1>5. Pushed' = Pushed
    BY <1>1 DEF Pushed, Others
<1>6. {"committing", "aborting"} \cap Stages' = {"committing", "aborting"} \cap Stages
    BY <1>1 DEF Stages, Others
<1>7. InLine(content', Pairs, Requests)
  <2>1. \A i \in DOMAIN Pairs : content'[Pairs[i]] = content[Pairs[i]]
    BY <1>3, PairContents
  <2> QED
    BY <2>1 DEF UpFits, InLine
<1>8. InLine(content, Pairs, Requests)'
    BY <1>2, <1>7 DEF Pairs, Requests
<1>9. PairsWait'
    BY <1>2, <1>3, <1>4, <1>5, <1>6 DEF UpFits, PairsWait
<1>10. RequestsHeard'
    BY <1>2, <1>3, <1>4, <1>6 DEF UpFits, RequestsHeard, HasCallback
<1>11. BatchApart'
  <2>1. \A u \in Sending' : hand'[u].batching = coreBatching
    BY <1>1 DEF UpFits, BatchApart, Sending, Others
  <2>2. ASSUME NEW u \in Threads, pc'[u] = "pushed"
        PROVE  /\ hand'[u].pair \in Range(IF coreBatching THEN vBatching ELSE vCallback)
               /\ content'[hand'[u].pair] = hand'[u].call
    <3>1. pc[u] = "pushed" /\ hand'[u] = hand[u]
      BY <1>1, <2>2 DEF Others
    <3>2. /\ hand[u].pair \in Range(IF coreBatching THEN vBatching ELSE vCallback)
          /\ content[hand[u].pair] = hand[u].call
      BY <3>1 DEF UpFits, BatchApart
    <3>3. hand[u].pair \in InUse
      BY <1>4, <3>2
    <3> QED
      BY <1>3, <3>1, <3>2, <3>3
  <2>3. {"committing", "aborting"} \cap Stages' # {} => vBatching = <<>>
    BY <1>6 DEF UpFits, BatchApart
  <2>4. batchBuf # <<>> \/ vBatching # <<>> => coreBatching
    BY DEF UpFits, BatchApart
  <2> QED
    BY <1>2, <2>1, <2>2, <2>3, <2>4 DEF BatchApart
<1> QED
    BY <1>2, <1>8, <1>9, <1>10, <1>11 DEF UpFits, Requests

LEMMA PushUp ==
    ASSUME PlaceInv, ContentsFit, HandsFit, BatchFits, UpFits,
           NEW t \in Threads, SendPush(t)
    PROVE  UpFits'
<1> DEFINE p == hand[t].pair
           c == hand[t].call
<1>1. /\ p \in Pair /\ p \in Held
      /\ pc[t] = "prepared" /\ pc'[t] = "pushed" /\ hand' = hand
      /\ csSend = NoThread /\ Others(t)
      /\ hand[t].batching =>
            /\ vBatching' = Append(vBatching, p) /\ vCallback' = vCallback
            /\ Range(vBatching') = Range(vBatching) \union {p}
      /\ ~hand[t].batching =>
            /\ vCallback' = Append(vCallback, p) /\ vBatching' = vBatching
            /\ Range(vCallback') = Range(vCallback) \union {p}
    BY PushEffect
<1>2. UNCHANGED <<wire, batchBuf, coreBatching, idOf, sent, content>>
    BY DEF SendPush, coreVars, callVars
<1>3. /\ t \in Sending /\ hand[t].batching = coreBatching /\ content[p] = c /\ c \notin sent
  <2>1. t \in Sending
    BY <1>1 DEF Sending
  <2> QED
    BY <1>1, <2>1 DEF UpFits, BatchApart, HandsFit, HandFits
<1>4. \A u \in Threads : pc[u] # "pushed"
    BY <1>1, ConstantsAssumption DEF HandsFit, HandFits, Sending
<1>5. Pushed' = {c} /\ Pushed = {}
    BY <1>1, <1>4 DEF Pushed, Others
<1>6. {"committing", "aborting"} \cap Stages = {}
    BY <1>3, SenderAlone
<1>7. {"committing", "aborting"} \cap Stages' = {}
    BY SMTT(30), <1>1, <1>6 DEF Stages, Others
<1>8. ~coreBatching => vBatching = <<>>
    BY DEF UpFits, BatchApart
<1>9. vBatching' = <<>> \/ coreBatching
    BY <1>1, <1>3, <1>8
<1> HIDE DEF p, c
<1>10. Pairs' = Append(Pairs, p)
  <2>0. vCallback \in Seq(Pair) /\ vBatching \in Seq(Pair) /\ p \in Pair
    BY <1>1, Shapes
  <2>1. vCallback' \o vBatching' = Append(vCallback \o vBatching, p)
    <3>1. CASE coreBatching
      <4>1. vCallback \o Append(vBatching, p) = Append(vCallback \o vBatching, p)
        BY <2>0, AppendConcat
      <4> QED
        BY <1>1, <1>3, <3>1, <4>1
    <3>2. CASE ~coreBatching
      <4>1. Append(vCallback, p) \o vBatching = Append(vCallback \o vBatching, p)
        BY <1>8, <2>0, <3>2, AppendConcat
      <4> QED
        BY <1>1, <1>3, <3>2, <4>1
    <3> QED
      BY <3>1, <3>2
  <2> QED
    BY <2>1 DEF Pairs
<1>11. content[p] \notin Range(Requests)
    BY <1>3, Shapes DEF UpFits
<1>12. InLine(content, Pairs, Requests)'
  <2>1. InLine(content, Append(Pairs, p), Requests)
    BY <1>1, <1>11, Shapes, InLinePair DEF UpFits
  <2>2. Requests' = Requests
    BY <1>2 DEF Requests
  <2> QED
    BY <1>2, <1>10, <2>1, <2>2
<1>13. PairsWait'
  <2>1. ASSUME NEW q \in Range(vCallback')
        PROVE  content[q] \in Range(wire) \union Pushed'
    <3>1. q \in Range(vCallback) \/ q = p
      BY <1>1
    <3> QED
      BY <1>3, <1>5, <1>6, <3>1 DEF UpFits, PairsWait
  <2>2. ASSUME NEW q \in Range(vBatching')
        PROVE  content[q] \in Range(batchBuf) \union Pushed'
    <3>1. q \in Range(vBatching) \/ q = p
      BY <1>1
    <3> QED
      BY <1>3, <1>5, <3>1 DEF UpFits, PairsWait
  <2> QED
    BY <1>2, <2>1, <2>2 DEF PairsWait
<1>14. RequestsHeard'
  <2>1. Range(vCallback) \subseteq Range(vCallback') /\ Range(vBatching) \subseteq Range(vBatching')
    BY <1>1
  <2> QED
    BY <1>2, <1>6, <2>1 DEF UpFits, RequestsHeard, HasCallback
<1>15. BatchApart'
  <2>1. Sending' = Sending
    BY <1>1 DEF Sending, Others
  <2>2. \A u \in Sending' : hand'[u].batching = coreBatching
    BY <1>1, <2>1 DEF UpFits, BatchApart
  <2>3. \A u \in Threads : pc'[u] = "pushed" => u = t
    BY <1>1, <1>4 DEF Others
  <2>4. p \in Range(IF coreBatching THEN vBatching' ELSE vCallback')
    BY <1>1, <1>3
  <2>5. content'[p] = c /\ hand'[t].pair = p /\ hand'[t].call = c
    BY <1>1, <1>2, <1>3 DEF p, c
  <2>6. batchBuf' # <<>> \/ vBatching' # <<>> => coreBatching'
    BY <1>2, <1>9 DEF UpFits, BatchApart
  <2> QED
    BY <1>2, <1>7, <2>2, <2>3, <2>4, <2>5, <2>6 DEF BatchApart
<1> QED
    BY <1>2, <1>12, <1>13, <1>14, <1>15 DEF UpFits, Requests

LEMMA AppendRange ==
    ASSUME NEW S, NEW q \in Seq(S), NEW x \in S
    PROVE  Range(Append(q, x)) = Range(q) \union {x}
<1> DEFINE r == Append(q, x)
<1>1. /\ Len(q) \in Nat /\ DOMAIN q = 1 .. Len(q) /\ DOMAIN r = 1 .. Len(q) + 1
      /\ \A i \in 1 .. Len(q) : r[i] = q[i]
      /\ r[Len(q) + 1] = x
    BY LenProperties, AppendProperties
<1> HIDE DEF r
<1>2. Range(r) = Range(q) \union {x}
    BY <1>1 DEF Range
<1> QED
    BY <1>2 DEF r

(* The core puts a request behind all the others.                          *)
LEMMA CoreSendEffect ==
    ASSUME PlaceInv, UpFits, NEW c \in Call, c \notin sent, CoreSend(c)
    PROVE  /\ Requests' = Append(Requests, c) /\ IsInjective(Requests')
           /\ coreBatching => /\ wire' = wire
                              /\ Range(batchBuf') = Range(batchBuf) \union {c}
           /\ ~coreBatching => /\ batchBuf' = batchBuf
                               /\ Range(wire') = Range(wire) \union {c}
<1>0. wire \in Seq(Call) /\ batchBuf \in Seq(Call) /\ Requests \in Seq(Call)
    BY Shapes
<1>1. ~coreBatching => batchBuf = <<>>
    BY DEF UpFits, BatchApart
<1>2. c \notin Range(Requests)
    BY Shapes DEF UpFits
<1>3. CASE coreBatching
  <2>1. batchBuf' = Append(batchBuf, c) /\ wire' = wire
    BY <1>3 DEF CoreSend
  <2>2. wire \o Append(batchBuf, c) = Append(wire \o batchBuf, c)
    BY <1>0, AppendConcat
  <2>3. Range(Append(batchBuf, c)) = Range(batchBuf) \union {c}
    BY <1>0, AppendRange
  <2>4. Requests' = Append(Requests, c)
    BY <2>1, <2>2 DEF Requests
  <2>5. IsInjective(Append(Requests, c))
    BY <1>0, <1>2, PushBackInjective DEF UpFits
  <2> QED
    BY <1>3, <2>1, <2>3, <2>4, <2>5
<1>4. CASE ~coreBatching
  <2>1. wire' = Append(wire, c) /\ batchBuf' = batchBuf
    BY <1>4 DEF CoreSend
  <2>2. Append(wire, c) \o batchBuf = Append(wire \o batchBuf, c)
    BY <1>0, <1>1, <1>4, AppendConcat
  <2>3. Range(Append(wire, c)) = Range(wire) \union {c}
    BY <1>0, AppendRange
  <2>4. Requests' = Append(Requests, c)
    BY <2>1, <2>2 DEF Requests
  <2>5. IsInjective(Append(Requests, c))
    BY <1>0, <1>2, PushBackInjective DEF UpFits
  <2> QED
    BY <1>4, <2>1, <2>3, <2>4, <2>5
<1> QED
    BY <1>3, <1>4

LEMMA CoreUp ==
    ASSUME PlaceInv, ContentsFit, HandsFit, BatchFits, UpFits, conn = "up",
           NEW t \in Threads, SendCore(t)
    PROVE  UpFits'
<1> DEFINE p == hand[t].pair
           c == hand[t].call
<1>0. ThreadType
    BY DEF PlaceInv, TypeOK
<1>1. /\ pc[t] = "pushed" /\ CoreSend(c) /\ sent' = sent \union {c}
      /\ pc' = [pc EXCEPT ![t] = "idle"] /\ hand' = [hand EXCEPT ![t] = NoHand]
      /\ UNCHANGED <<vCallback, vBatching, content, coreBatching, idOf>>
    BY DEF SendCore, handlerVars
<1>2. pc'[t] = "idle" /\ Others(t)
    BY <1>0, <1>1 DEF ThreadType, Others
<1>3. t \in Sending /\ HandFits(t)
    BY <1>1 DEF Sending, HandsFit
<1>4. /\ c \in Call /\ c \notin sent /\ content[p] = c
      /\ p \in Range(IF coreBatching THEN vBatching ELSE vCallback)
    BY <1>0, <1>1, <1>3 DEF UpFits, BatchApart, HandFits, ThreadType
<1>5. \A u \in Threads : pc[u] = "pushed" => u = t
    BY <1>1, <1>3 DEF HandsFit, HandFits, Sending
<1>6. Pushed = {c} /\ Pushed' = {}
    BY <1>1, <1>2, <1>5 DEF Pushed, Others
<1>7. {"committing", "aborting"} \cap Stages = {}
    BY <1>3, SenderAlone
<1>8. {"committing", "aborting"} \cap Stages' = {}
    BY <1>2, <1>7 DEF Stages, Others
<1> HIDE DEF p, c
<1>9. /\ Requests' = Append(Requests, c) /\ IsInjective(Requests')
      /\ coreBatching => /\ wire' = wire
                         /\ Range(batchBuf') = Range(batchBuf) \union {c}
      /\ ~coreBatching => /\ batchBuf' = batchBuf
                          /\ Range(wire') = Range(wire) \union {c}
    BY <1>1, <1>4, CoreSendEffect
<1>10. \A i \in DOMAIN Pairs : content[Pairs[i]] \in Range(Requests) \union {c}
  <2>1. \A i \in DOMAIN Pairs : Pairs[i] \in Range(vCallback) \union Range(vBatching)
    BY Shapes DEF Range
  <2> QED
    BY <1>6, <2>1, Shapes DEF UpFits, PairsWait
<1>11. InLine(content, Pairs, Requests)'
  <2>1. /\ c \notin Range(Requests) /\ Requests \in Seq(Call) /\ DOMAIN Pairs \subseteq Int
    BY <1>4, Shapes DEF UpFits
  <2>2. \A i, j \in DOMAIN Pairs : content[Pairs[i]] = content[Pairs[j]] => i = j
    BY PairContents
  <2>3. \A i, j \in DOMAIN Pairs :
            i < j /\ content[Pairs[j]] = c => content[Pairs[i]] \in Range(Requests)
    BY <1>10, <2>1, <2>2
  <2>4. InLine(content, Pairs, Append(Requests, c))
    BY <1>4, <2>1, <2>2, <2>3, InLineRequest DEF UpFits
  <2>5. Pairs' = Pairs
    BY <1>1 DEF Pairs
  <2> QED
    BY <1>1, <1>9, <2>4, <2>5
<1>12. PairsWait'
  <2>1. ASSUME NEW q \in Range(vCallback)
        PROVE  content[q] \in Range(wire')
    <3>1. content[q] \in Range(wire) \union {c}
      BY <1>6, <1>7 DEF UpFits, PairsWait
    <3>2. CASE coreBatching
      <4>1. q \in InUse /\ p \in InUse /\ p \in Range(vBatching)
        BY <1>4, <3>2 DEF InUse, Queued
      <4>2. q # p
        BY <4>1 DEF PlaceInv, OnePlace, PlacesApart
      <4>3. content[q] # c
        BY <1>4, <4>1, <4>2 DEF ContentsFit
      <4> QED
        BY <1>9, <3>1, <3>2, <4>3
    <3>3. CASE ~coreBatching
      BY <1>9, <3>1, <3>3
    <3> QED
      BY <3>2, <3>3
  <2>2. ASSUME NEW q \in Range(vBatching)
        PROVE  content[q] \in Range(batchBuf')
    <3>1. content[q] \in Range(batchBuf) \union {c}
      BY <1>6 DEF UpFits, PairsWait
    <3>2. coreBatching
      BY EmptyInjective DEF UpFits, BatchApart
    <3> QED
      BY <1>9, <3>1, <3>2
  <2> QED
    BY <1>1, <2>1, <2>2 DEF PairsWait
<1>13. RequestsHeard'
  <2>1. ASSUME NEW d \in Range(wire'), idOf[d] \in ReqIds
        PROVE  \E q \in Range(vCallback) : content[q] = d
    <3>1. d \in Range(wire) \/ (~coreBatching /\ d = c)
      BY <1>9
    <3> QED
      BY <1>4, <2>1, <3>1 DEF UpFits, RequestsHeard, HasCallback
  <2>2. ASSUME NEW d \in Range(batchBuf'), idOf[d] \in ReqIds
        PROVE  \E q \in Range(vCallback) \union Range(vBatching) : content[q] = d
    <3>1. d \in Range(batchBuf) \/ (coreBatching /\ d = c)
      BY <1>9
    <3> QED
      BY <1>4, <1>7, <2>2, <3>1 DEF UpFits, RequestsHeard, HasCallback
  <2> QED
    BY <1>1, <2>1, <2>2 DEF RequestsHeard, HasCallback
<1>14. BatchApart'
  <2>1. \A u \in Sending' : hand'[u].batching = coreBatching
    BY <1>2 DEF UpFits, BatchApart, Sending, Others
  <2>2. \A u \in Threads : pc'[u] # "pushed"
    BY <1>2, <1>5 DEF Others
  <2>3. batchBuf' # <<>> \/ vBatching # <<>> => coreBatching
    BY <1>9 DEF UpFits, BatchApart
  <2> QED
    BY <1>1, <1>8, <2>1, <2>2, <2>3 DEF BatchApart
<1>15. Range(wire') \union Range(batchBuf') \subseteq sent'
    BY <1>1, <1>9 DEF UpFits
<1> QED
    BY <1>9, <1>11, <1>12, <1>13, <1>14, <1>15 DEF UpFits

LEMMA MuteUp ==
    ASSUME PlaceInv, ContentsFit, UpFits, conn = "up", NEW t \in Threads, SendMute(t)
    PROVE  UpFits'
<1> DEFINE c == calls'
<1>1. /\ calls' = calls + 1 /\ calls < MaxCalls /\ ~HasCallback(c) /\ CoreSend(c)
      /\ sent' = sent \union {c}
      /\ UNCHANGED <<vCallback, vBatching, content, coreBatching, idOf, pc, hand>>
    BY DEF SendMute, handlerVars, threadVars
<1>2. c \in Call /\ c \notin sent /\ c \notin 1 .. calls
    BY <1>1, ConstantsAssumption DEF PlaceInv, TypeOK, CallType, Call, ContentsFit
<1>3. Pushed' = Pushed /\ Stages' = Stages /\ Sending' = Sending /\ Pairs' = Pairs
    BY <1>1 DEF Pushed, Stages, Sending, Pairs
<1> HIDE DEF c
<1>4. /\ Requests' = Append(Requests, c) /\ IsInjective(Requests')
      /\ coreBatching => /\ wire' = wire
                         /\ Range(batchBuf') = Range(batchBuf) \union {c}
      /\ ~coreBatching => /\ batchBuf' = batchBuf
                          /\ Range(wire') = Range(wire) \union {c}
    BY <1>1, <1>2, CoreSendEffect
<1>5. \A i \in DOMAIN Pairs : content[Pairs[i]] # c
    BY <1>2, PairContents DEF ContentsFit
<1>6. InLine(content, Pairs, Requests)'
  <2>1. /\ c \notin Range(Requests) /\ Requests \in Seq(Call) /\ DOMAIN Pairs \subseteq Int
    BY <1>2, Shapes DEF UpFits
  <2>2. \A i, j \in DOMAIN Pairs : content[Pairs[i]] = content[Pairs[j]] => i = j
    BY PairContents
  <2>3. InLine(content, Pairs, Append(Requests, c))
    BY <1>2, <1>5, <2>1, <2>2, InLineRequest DEF UpFits
  <2> QED
    BY <1>1, <1>3, <1>4, <2>3
<1>7. Range(wire) \subseteq Range(wire') /\ Range(batchBuf) \subseteq Range(batchBuf')
    BY <1>4
<1>8. PairsWait'
    BY <1>1, <1>3, <1>7 DEF UpFits, PairsWait
<1>9. RequestsHeard'
  <2>1. /\ Range(wire') \subseteq Range(wire) \union {c}
        /\ Range(batchBuf') \subseteq Range(batchBuf) \union {c}
    BY <1>4
  <2> QED
    BY <1>1, <1>3, <2>1 DEF UpFits, RequestsHeard, HasCallback
<1>10. BatchApart'
  <2>1. batchBuf' # <<>> \/ vBatching # <<>> => coreBatching
    BY <1>4 DEF UpFits, BatchApart
  <2> QED
    BY <1>1, <1>3, <2>1 DEF UpFits, BatchApart
<1>11. Range(wire') \union Range(batchBuf') \subseteq sent'
    BY <1>1, <1>4 DEF UpFits
<1> QED
    BY <1>4, <1>6, <1>8, <1>9, <1>10, <1>11 DEF UpFits

LEMMA SendUp ==
    ASSUME PlaceInv, ContentsFit, HandsFit, BatchFits, UpFits, conn = "up",
           NEW t \in Threads, Send(t) \/ SendMute(t)
    PROVE  UpFits'
<1>1. ~SendUndo(t)
    BY DEF SendUndo, HandsFit, HandFits, Sending
<1> QED
    BY <1>1, PrepareUp, PushUp, CoreUp, MuteUp DEF Send
----------------------------------------------------------------------------
(* With a connection: batching, and the worker thread.                     *)
LEMMA OutsideUp ==
    ASSUME PlaceInv, ContentsFit, BatchFits, Exclusive, UpFits, conn = "up",
           NEW t \in Threads, Outside(t)
    PROVE  UpFits'
<1>0. /\ vCallback \in Seq(Pair) /\ vBatching \in Seq(Pair)
      /\ wire \in Seq(Call) /\ batchBuf \in Seq(Call)
    BY Shapes
<1>1. /\ UNCHANGED <<content, sent, hand, idOf>> /\ Sending' = Sending
      /\ pc[t] \notin {"prepared", "pushed", "failed"}
      /\ \A u \in Threads : u # t => pc'[u] = pc[u]
      /\ \A u \in Threads : pc'[u] = "pushed" <=> pc[u] = "pushed"
  <2>1. idOf' = idOf
    BY DEF Outside, Batch, StartBatching, CommitBatchingMove, CommitBatchingCore,
           AbortBatchingClean, AbortBatchingCore, Cancel, callVars
  <2> QED
    BY <2>1, OutsideEffect DEF SentCalls
<1>2. Pushed' = Pushed
    BY <1>1 DEF Pushed
<1>3. CASE StartBatching(t)
  <2>1. /\ Sending = {} /\ ~coreBatching /\ coreBatching' = TRUE
        /\ UNCHANGED <<vCallback, vBatching, wire, batchBuf, pc>>
    BY <1>3 DEF StartBatching, handlerVars
  <2>2. Stages' = Stages /\ Pairs' = Pairs /\ Requests' = Requests
    BY <2>1 DEF Stages, Pairs, Requests
  <2>3. \A u \in Threads : pc[u] # "pushed"
    BY <2>1 DEF Sending
  <2>4. BatchApart'
    BY <1>1, <2>1, <2>2, <2>3 DEF UpFits, BatchApart
  <2>5. PairsWait' /\ RequestsHeard'
    BY <1>1, <1>2, <2>1, <2>2 DEF UpFits, PairsWait, RequestsHeard, HasCallback
  <2> QED
    BY <1>1, <2>1, <2>2, <2>4, <2>5 DEF UpFits
<1>4. CASE CommitBatchingMove(t)
  <2>1. /\ t \in batchers /\ pc[t] = "idle" /\ pc' = [pc EXCEPT ![t] = "committing"]
        /\ vCallback' = vCallback \o vBatching /\ vBatching' = <<>>
        /\ UNCHANGED <<wire, batchBuf, coreBatching>>
    BY <1>4 DEF CommitBatchingMove, coreVars
  <2>2. Sending = {} /\ {"committing", "aborting"} \cap Stages = {}
    <3>1. t \notin Sending
      BY <2>1 DEF Sending
    <3>2. \A u \in Threads : pc[u] \in {"committing", "aborting"} => u = t
      BY <2>1, <3>1, BatcherAlone
    <3>3. Sending = {}
      BY <2>1, <3>1, BatcherAlone
    <3> QED
      BY <2>1, <3>2, <3>3 DEF Stages
  <2>3. "committing" \in Stages' /\ \A u \in Threads : pc'[u] # "pushed"
    BY <1>1, <2>1, <2>2 DEF Stages, Sending, PlaceInv, TypeOK, ThreadType
  <2>4. Pushed = {}
    BY <2>2 DEF Pushed, Sending
  <2>5. Range(vCallback') = Range(vCallback) \union Range(vBatching) /\ Range(vBatching') = {}
    BY <1>0, <2>1, RangeConcatenation, EmptyInjective
  <2>6. Pairs' = Pairs /\ Requests' = Requests
    <3>1. vCallback \o vBatching \in Seq(Pair)
      BY <1>0, ConcatProperties
    <3>2. (vCallback \o vBatching) \o <<>> = vCallback \o vBatching
      BY <3>1, ConcatEmptySeq
    <3> QED
      BY <2>1, <3>2 DEF Pairs, Requests
  <2>7. PairsWait'
    BY <1>1, <2>1, <2>3, <2>4, <2>5 DEF UpFits, PairsWait
  <2>8. RequestsHeard'
    BY <1>1, <2>1, <2>2, <2>5 DEF UpFits, RequestsHeard, HasCallback
  <2>9. BatchApart'
    BY <1>1, <2>1, <2>2, <2>3 DEF UpFits, BatchApart
  <2> QED
    BY <1>1, <2>1, <2>6, <2>7, <2>8, <2>9 DEF UpFits
<1>5. CASE CommitBatchingCore(t)
  <2>1. /\ pc[t] = "committing" /\ pc' = [pc EXCEPT ![t] = "idle"]
        /\ wire' = wire \o batchBuf /\ batchBuf' = <<>> /\ coreBatching' = FALSE
        /\ UNCHANGED <<vCallback, vBatching>>
    BY <1>5 DEF CommitBatchingCore, handlerVars
  <2>2. /\ Sending = {} /\ vBatching = <<>> /\ "aborting" \notin Stages
        /\ {"committing", "aborting"} \cap Stages' = {}
    <3>1. t \in batchers /\ t \notin Sending
      BY <2>1 DEF BatchFits, Sending
    <3>2. \A u \in Threads : pc[u] \in {"committing", "aborting"} => u = t
      BY <3>1, BatcherAlone
    <3>3. Sending = {}
      BY <3>1, BatcherAlone
    <3>4. "committing" \in Stages /\ pc'[t] = "idle"
      BY <2>1 DEF Stages, PlaceInv, TypeOK, ThreadType
    <3>5. vBatching = <<>>
      BY <3>4 DEF UpFits, BatchApart
    <3> QED
      BY <1>1, <2>1, <3>2, <3>3, <3>4, <3>5 DEF Stages
  <2>3. Pushed = {}
    BY <2>2 DEF Pushed, Sending
  <2>4. Range(wire') = Range(wire) \union Range(batchBuf) /\ Range(batchBuf') = {}
    BY <1>0, <2>1, RangeConcatenation, EmptyInjective
  <2>5. Pairs' = Pairs /\ Requests' = Requests
    <3>1. wire \o batchBuf \in Seq(Call)
      BY <1>0, ConcatProperties
    <3>2. (wire \o batchBuf) \o <<>> = wire \o batchBuf
      BY <3>1, ConcatEmptySeq
    <3> QED
      BY <2>1, <3>2 DEF Pairs, Requests
  <2>6. Range(vBatching) = {}
    BY <2>2, EmptyInjective
  <2>7. PairsWait'
    BY <1>1, <2>1, <2>3, <2>4, <2>6 DEF UpFits, PairsWait
  <2>8. RequestsHeard'
    BY <1>1, <2>1, <2>2, <2>4, <2>6 DEF UpFits, RequestsHeard, HasCallback
  <2>9. \A u \in Threads : pc'[u] # "pushed"
    BY <1>1, <2>2 DEF Sending
  <2>10. BatchApart'
    BY <1>1, <2>1, <2>2, <2>9 DEF BatchApart
  <2> QED
    BY <1>1, <2>4, <2>5, <2>7, <2>8, <2>10 DEF UpFits
<1>6. CASE AbortBatchingClean(t)
  <2>1. /\ t \in batchers /\ pc[t] = "idle" /\ pc' = [pc EXCEPT ![t] = "aborting"]
        /\ vBatching' = <<>> /\ vCallback' = vCallback
        /\ UNCHANGED <<wire, batchBuf, coreBatching>>
    BY <1>6 DEF AbortBatchingClean, coreVars
  <2>2. Sending = {} /\ {"committing", "aborting"} \cap Stages = {}
    <3>1. t \notin Sending
      BY <2>1 DEF Sending
    <3>2. \A u \in Threads : pc[u] \in {"committing", "aborting"} => u = t
      BY <2>1, <3>1, BatcherAlone
    <3>3. Sending = {}
      BY <2>1, <3>1, BatcherAlone
    <3> QED
      BY <2>1, <3>2, <3>3 DEF Stages
  <2>3. "aborting" \in Stages' /\ \A u \in Threads : pc'[u] # "pushed"
    BY <1>1, <2>1, <2>2 DEF Stages, Sending, PlaceInv, TypeOK, ThreadType
  <2>4. InLine(content, Pairs, Requests)'
    <3>1. InLine(content, vCallback, Requests)
      BY <1>0, InLinePrefix DEF UpFits, Pairs
    <3>2. Pairs' = vCallback
      BY <1>0, <2>1, ConcatEmptySeq DEF Pairs
    <3>3. Requests' = Requests
      BY <2>1 DEF Requests
    <3> QED
      BY <1>1, <3>1, <3>2, <3>3
  <2>5. PairsWait'
    BY <1>1, <1>2, <2>1, <2>2, EmptyInjective DEF UpFits, PairsWait
  <2>6. RequestsHeard'
    BY <1>1, <2>1, <2>3 DEF UpFits, RequestsHeard, HasCallback
  <2>7. BatchApart'
    BY <1>1, <2>1, <2>2, <2>3 DEF UpFits, BatchApart
  <2>8. IsInjective(Requests)'
    BY <2>1 DEF UpFits, Requests
  <2> QED
    BY <1>1, <2>1, <2>4, <2>5, <2>6, <2>7, <2>8 DEF UpFits
<1>7. CASE AbortBatchingCore(t)
  <2>1. /\ pc[t] = "aborting" /\ pc' = [pc EXCEPT ![t] = "idle"]
        /\ batchBuf' = <<>> /\ coreBatching' = FALSE
        /\ UNCHANGED <<vCallback, vBatching, wire>>
    BY <1>7 DEF AbortBatchingCore, handlerVars
  <2>2. /\ Sending = {} /\ vBatching = <<>> /\ "committing" \notin Stages
        /\ {"committing", "aborting"} \cap Stages' = {}
    <3>1. t \in batchers /\ t \notin Sending
      BY <2>1 DEF BatchFits, Sending
    <3>2. \A u \in Threads : pc[u] \in {"committing", "aborting"} => u = t
      BY <3>1, BatcherAlone
    <3>3. Sending = {}
      BY <3>1, BatcherAlone
    <3>4. "aborting" \in Stages /\ pc'[t] = "idle"
      BY <2>1 DEF Stages, PlaceInv, TypeOK, ThreadType
    <3>5. vBatching = <<>>
      BY <3>4 DEF UpFits, BatchApart
    <3> QED
      BY <1>1, <2>1, <3>2, <3>3, <3>4, <3>5 DEF Stages
  <2>3. Pushed = {}
    BY <2>2 DEF Pushed, Sending
  <2>4. Range(vBatching) = {} /\ Range(batchBuf') = {}
    BY <2>1, <2>2, EmptyInjective
  <2>5. \A q \in Range(vCallback) : content[q] \in Range(wire)
    BY <2>2, <2>3 DEF UpFits, PairsWait
  <2>6. Requests' = wire
    BY <1>0, <2>1, ConcatEmptySeq DEF Requests
  <2>7. InLine(content, Pairs, Requests)'
    <3>1. \A i \in DOMAIN Pairs : content[Pairs[i]] \in Range(wire)
      BY <2>4, <2>5, Shapes DEF Range
    <3>2. InLine(content, Pairs, wire)
      BY <1>0, <3>1, InLineSent DEF UpFits, Requests
    <3>3. Pairs' = Pairs
      BY <2>1 DEF Pairs
    <3> QED
      BY <1>1, <2>6, <3>2, <3>3
  <2>8. IsInjective(Requests)'
    <3>1. \A k \in DOMAIN wire : k \in DOMAIN Requests /\ Requests[k] = wire[k]
      BY <1>0, LenProperties, ConcatProperties DEF Requests
    <3>2. IsInjective(wire)
      BY <3>1 DEF UpFits, IsInjective
    <3> QED
      BY <2>6, <3>2
  <2>9. PairsWait'
    BY <1>1, <2>1, <2>4, <2>5 DEF PairsWait
  <2>10. RequestsHeard'
    BY <1>1, <2>1, <2>4 DEF UpFits, RequestsHeard, HasCallback
  <2>11. \A u \in Threads : pc'[u] # "pushed"
    BY <1>1, <2>2 DEF Sending
  <2>12. BatchApart'
    BY <1>1, <2>1, <2>2, <2>11 DEF BatchApart
  <2> QED
    BY <1>1, <2>1, <2>4, <2>7, <2>8, <2>9, <2>10, <2>12 DEF UpFits
<1>8. CASE Cancel(t)
  <2>1. UNCHANGED <<vCallback, vBatching, wire, batchBuf, coreBatching, pc>>
    BY <1>8 DEF Cancel, handlerVars, threadVars
  <2>2. Stages' = Stages /\ Pairs' = Pairs /\ Requests' = Requests
    BY <2>1 DEF Stages, Pairs, Requests
  <2>3. PairsWait' /\ RequestsHeard' /\ BatchApart'
    BY <1>1, <1>2, <2>1, <2>2 DEF UpFits, PairsWait, RequestsHeard, BatchApart, HasCallback
  <2> QED
    BY <1>1, <2>1, <2>2, <2>3 DEF UpFits
<1> QED
    BY <1>3, <1>4, <1>5, <1>6, <1>7, <1>8 DEF Outside, Batch

(* Nothing waits, and nobody sends.                                        *)
LEMMA EmptyUp ==
    ASSUME vCallback' = <<>>, vBatching' = <<>>, wire' = <<>>, batchBuf' = <<>>,
           Sending' = {}
    PROVE  UpFits'
<1>1. Pairs' = <<>> /\ Requests' = <<>>
    BY DEF Pairs, Requests
<1>2. /\ Range(vCallback') = {} /\ Range(vBatching') = {}
      /\ Range(wire') = {} /\ Range(batchBuf') = {}
    BY EmptyInjective
<1>3. InLine(content', <<>>, <<>>) /\ IsInjective(<<>>)
    BY EmptyInjective DEF InLine
<1>4. InLine(content, Pairs, Requests)' /\ IsInjective(Requests)'
    BY <1>1, <1>3
<1>5. PairsWait' /\ RequestsHeard'
    BY <1>2 DEF PairsWait, RequestsHeard
<1>6. BatchApart'
    BY DEF BatchApart, Sending
<1> QED
    BY <1>2, <1>4, <1>5, <1>6 DEF UpFits

LEMMA RestInjective ==
    ASSUME NEW r, NEW s, Rest(r, s), IsInjective(s)
    PROVE  IsInjective(r)
<1>1. ASSUME NEW i \in DOMAIN r, NEW j \in DOMAIN r, r[i] = r[j]
      PROVE  i = j
  <2>1. /\ i + 1 \in DOMAIN s /\ j + 1 \in DOMAIN s /\ s[i + 1] = s[j + 1]
        /\ i \in Int /\ j \in Int
    BY <1>1 DEF Rest
  <2>2. i + 1 = j + 1
    BY <2>1 DEF IsInjective
  <2> QED
    BY <2>1, <2>2
<1> QED
    BY <1>1 DEF IsInjective

LEMMA ConcatApart ==
    ASSUME NEW S, NEW a \in Seq(S), NEW b \in Seq(S), IsInjective(a \o b)
    PROVE  IsInjective(a) /\ Range(a) \cap Range(b) = {}
<1> DEFINE q == a \o b
<1>1. /\ Len(a) \in Nat /\ DOMAIN a = 1 .. Len(a)
      /\ Len(b) \in Nat /\ DOMAIN b = 1 .. Len(b)
      /\ DOMAIN q = 1 .. Len(a) + Len(b)
      /\ \A i \in 1 .. Len(a) + Len(b) : q[i] = IF i <= Len(a) THEN a[i] ELSE b[i - Len(a)]
    BY LenProperties, ConcatProperties
<1>2. IsInjective(q)
    OBVIOUS
<1> HIDE DEF q
<1>3. \A i \in DOMAIN a : i \in DOMAIN q /\ q[i] = a[i]
    BY <1>1
<1>4. ASSUME NEW i \in DOMAIN a, NEW j \in DOMAIN b, a[i] = b[j]
      PROVE  FALSE
  <2>1. /\ Len(a) + j \in DOMAIN q /\ ~(Len(a) + j <= Len(a)) /\ (Len(a) + j) - Len(a) = j
        /\ i # Len(a) + j
    BY <1>1
  <2>2. q[Len(a) + j] = b[j]
    BY <1>1, <2>1
  <2> QED
    BY <1>2, <1>3, <1>4, <2>1, <2>2 DEF IsInjective
<1>5. IsInjective(a)
    BY <1>2, <1>3 DEF IsInjective
<1>6. Range(a) \cap Range(b) = {}
    BY <1>4 DEF Range
<1> QED
    BY <1>5, <1>6

LEMMA AnswerUp ==
    ASSUME PlaceInv, ContentsFit, HandsFit, UpFits, ~Random, NEW how, Answer(how)
    PROVE  UpFits'
<1>0. /\ vCallback \in Seq(Pair) /\ vBatching \in Seq(Pair)
      /\ wire \in Seq(Call) /\ batchBuf \in Seq(Call)
    BY Shapes
<1>1. UNCHANGED <<vBatching, batchBuf, content, idOf, sent, pc, hand, coreBatching>>
    BY DEF Answer, threadVars
<1>2. Pushed' = Pushed /\ Stages' = Stages /\ Sending' = Sending
    BY <1>1 DEF Pushed, Stages, Sending
<1>3. /\ 1 \in DOMAIN wire /\ wire' = RemoveAt(wire, 1)
      /\ \/ /\ ~HasCallback(wire[1]) /\ vCallback' = vCallback
         \/ /\ HasCallback(wire[1])
            /\ 1 \in DOMAIN vCallback /\ content[vCallback[1]] = wire[1]
            /\ vCallback' = RemoveAt(vCallback, 1)
            /\ Range(vCallback') = Range(vCallback) \ {vCallback[1]}
    BY AnswerEffect
<1>4. 1 \in 1 .. Len(wire) /\ wire[1] \in Range(wire)
    BY <1>0, <1>3, LenProperties DEF Range
<1>5. IsInjective(wire) /\ Range(wire) \cap Range(batchBuf) = {}
    BY <1>0, ConcatApart DEF UpFits, Requests
<1>6. Range(wire') = Range(wire) \ {wire[1]}
    BY <1>0, <1>3, <1>4, <1>5, RemoveAtInjective
<1>7. Rest(Requests', Requests) /\ Requests[1] = wire[1]
  <2>1. Rest(RemoveAt(wire, 1) \o batchBuf, wire \o batchBuf)
    BY <1>0, <1>3, RestOfConcat
  <2>2. (wire \o batchBuf)[1] = wire[1]
    BY <1>0, <1>4, LenProperties, ConcatProperties
  <2> QED
    BY <1>1, <1>3, <2>1, <2>2 DEF Requests
<1>8. IsInjective(Requests)'
    BY <1>7, RestInjective DEF UpFits
<1>9. Range(wire') \union Range(batchBuf') \subseteq sent'
    BY <1>1, <1>6 DEF UpFits
<1>10. wire[1] \in sent /\ wire[1] \notin Range(batchBuf)
    BY <1>4, <1>5 DEF UpFits
(* The pairs left are of other requests, and are all still queued.         *)
<1>11. /\ Range(vCallback') \subseteq Range(vCallback)
       /\ \A q \in Range(vCallback') : content[q] # wire[1]
       /\ \A q \in Range(vCallback) : content[q] # wire[1] => q \in Range(vCallback')
       /\ InLine(content, Pairs', Requests)
       /\ \A i \in DOMAIN Pairs' : content[Pairs'[i]] # wire[1]
  <2>0. \A q \in Range(vCallback) : q \in InUse
    BY DEF InUse, Queued
  <2>1. CASE ~HasCallback(wire[1]) /\ vCallback' = vCallback
    <3>1. \A q \in InUse : content[q] # wire[1]
      BY <2>1 DEF ContentsFit
    <3>2. Pairs' = Pairs
      BY <1>1, <2>1 DEF Pairs
    <3>3. \A i \in DOMAIN Pairs : content[Pairs[i]] # wire[1]
      BY <3>1, PairContents
    <3> QED
      BY <2>0, <2>1, <3>1, <3>2, <3>3 DEF UpFits
  <2>2. CASE /\ 1 \in DOMAIN vCallback /\ content[vCallback[1]] = wire[1]
             /\ vCallback' = RemoveAt(vCallback, 1)
             /\ Range(vCallback') = Range(vCallback) \ {vCallback[1]}
    <3>1. vCallback[1] \in Range(vCallback)
      BY <2>2 DEF Range
    <3>2. \A q \in Range(vCallback) : content[q] = wire[1] => q = vCallback[1]
      BY <2>0, <2>2, <3>1 DEF ContentsFit
    <3>3. Rest(Pairs', Pairs) /\ Pairs[1] = vCallback[1]
      <4>1. Rest(RemoveAt(vCallback, 1) \o vBatching, vCallback \o vBatching)
        BY <1>0, <2>2, RestOfConcat
      <4>2. (vCallback \o vBatching)[1] = vCallback[1]
        BY <1>0, <2>2, LenProperties, ConcatProperties
      <4> QED
        BY <1>1, <2>2, <4>1, <4>2 DEF Pairs
    <3>4. InLine(content, Pairs', Requests)
      BY <3>3, InLinePopped DEF UpFits
    <3>5. ASSUME NEW i \in DOMAIN Pairs', content[Pairs'[i]] = wire[1]
          PROVE  FALSE
      <4>1. /\ i + 1 \in DOMAIN Pairs /\ Pairs'[i] = Pairs[i + 1] /\ 1 \in DOMAIN Pairs
            /\ i + 1 # 1
        BY <3>3 DEF Rest
      <4> QED
        BY <2>2, <3>3, <3>5, <4>1, PairContents
    <3> QED
      BY <2>2, <3>2, <3>4, <3>5
  <2> QED
    BY <1>3, <2>1, <2>2
<1>12. InLine(content, Pairs, Requests)'
  <2>1. InLine(content, Pairs', Requests')
    BY <1>7, <1>11, InLineNext
  <2> QED
    BY <1>1, <2>1
<1>13. PairsWait'
    BY <1>1, <1>2, <1>6, <1>11 DEF UpFits, PairsWait
<1>14. RequestsHeard'
  <2>1. ASSUME NEW c \in Range(wire'), idOf[c] \in ReqIds
        PROVE  \E q \in Range(vCallback') : content[q] = c
    <3>1. c \in Range(wire) /\ c # wire[1]
      BY <1>6
    <3>2. PICK q \in Range(vCallback) : content[q] = c
      BY <2>1, <3>1 DEF UpFits, RequestsHeard, HasCallback
    <3> QED
      BY <1>11, <3>1, <3>2
  <2>2. ASSUME NEW c \in Range(batchBuf), idOf[c] \in ReqIds, "aborting" \notin Stages
        PROVE  \E q \in Range(vCallback') \union Range(vBatching) : content[q] = c
    <3>1. c # wire[1]
      BY <1>10
    <3>2. PICK q \in Range(vCallback) \union Range(vBatching) : content[q] = c
      BY <2>2 DEF UpFits, RequestsHeard, HasCallback
    <3> QED
      BY <1>11, <3>1, <3>2
  <2> QED
    BY <1>1, <1>2, <2>1, <2>2 DEF RequestsHeard, HasCallback
<1>15. BatchApart'
  <2>1. ASSUME NEW u \in Threads, pc[u] = "pushed"
        PROVE  /\ hand[u].pair \in Range(IF coreBatching THEN vBatching ELSE vCallback')
               /\ content[hand[u].pair] = hand[u].call
    <3>1. /\ hand[u].pair \in Range(IF coreBatching THEN vBatching ELSE vCallback)
          /\ content[hand[u].pair] = hand[u].call
      BY <2>1 DEF UpFits, BatchApart
    <3>2. hand[u].call \notin sent
      BY <2>1 DEF HandsFit, HandFits, Sending
    <3> QED
      BY <1>10, <1>11, <3>1, <3>2
  <2>2. /\ batchBuf # <<>> \/ vBatching # <<>> => coreBatching
        /\ \A u \in Sending : hand[u].batching = coreBatching
        /\ {"committing", "aborting"} \cap Stages # {} => vBatching = <<>>
    BY DEF UpFits, BatchApart
  <2> QED
    BY <1>1, <1>2, <2>1, <2>2 DEF BatchApart
<1> QED
    BY <1>8, <1>9, <1>12, <1>13, <1>14, <1>15 DEF UpFits

LEMMA DeliveryUp ==
    ASSUME PlaceInv, ContentsFit, HandsFit, CoreFits, conn = "up" => UpFits,
           conn = "down" => DownFits, ~Random, PatientReconnect,
           Delivery, conn' = "up"
    PROVE  UpFits'
<1>1. Sending' = Sending /\ UNCHANGED <<pc, hand, content, sent>>
    BY DeliveryEffect DEF SentCalls
<1>2. ASSUME NEW how, Answer(how)
      PROVE  UpFits'
    BY <1>2, AnswerUp DEF Answer
<1>3. CASE OnCanceled
  <2>1. /\ canceling >= 0 /\ vCallback' = <<>> /\ vBatching' = <<>>
        /\ batchBuf' = batchBuf /\ wire' = SubSeq(wire, canceling + 1, Len(wire))
    BY <1>3 DEF OnCanceled, CleanCallbacksSwap
  <2>2. Sending = {} /\ batchBuf = <<>> /\ canceling = Len(wire)
    BY <2>1 DEF CoreFits
  <2>3. wire' = <<>>
    <3>1. wire \in Seq(Call) /\ Len(wire) \in Nat /\ Len(wire) < Len(wire) + 1
      BY Shapes, LenProperties
    <3> QED
      BY <2>1, <2>2, <3>1, SubSeqEmpty
  <2> QED
    BY <1>1, <2>1, <2>2, <2>3, EmptyUp
<1>4. CASE CleanCallbacksBatching \/ CleanCallbacksWaiting \/ Clear
  <2>1. UNCHANGED <<vCallback, vBatching, wire, batchBuf, coreBatching, conn, idOf>>
    BY <1>4 DEF CleanCallbacksBatching, CleanCallbacksWaiting, Clear,
                ClearResultCallbackPool, coreVars, callVars
  <2>2. /\ Pushed' = Pushed /\ Stages' = Stages
        /\ Pairs' = Pairs /\ Requests' = Requests
    BY <1>1, <2>1 DEF Pushed, Stages, Pairs, Requests
  <2>3. PairsWait' /\ RequestsHeard' /\ BatchApart'
    BY <1>1, <2>1, <2>2 DEF UpFits, PairsWait, RequestsHeard, BatchApart, HasCallback
  <2> QED
    BY <1>1, <2>1, <2>2, <2>3 DEF UpFits
<1>5. CASE Reconnect
  <2>1. /\ conn = "down" /\ Sending = {}
        /\ UNCHANGED <<vCallback, vBatching, wire, batchBuf>>
    BY <1>5 DEF Reconnect, handlerVars
  <2>2. vCallback = <<>> /\ vBatching = <<>>
    BY <2>1, NobodyReturns
  <2>3. wire = <<>> /\ batchBuf = <<>>
    BY <2>1 DEF CoreFits
  <2> QED
    BY <1>1, <2>1, <2>2, <2>3, EmptyUp
<1> QED
    BY <1>2, <1>3, <1>4, <1>5 DEF Delivery, Worker, OnRequestProcessed,
        OnServerException, OnSocketClosed, CoreClose
----------------------------------------------------------------------------
LEMMA InitSession == Init => SessionInv
<1> SUFFICES ASSUME Init
             PROVE  SessionInv
    OBVIOUS
<1>1. PlaceInv
    BY InitType, InitOnePlace DEF PlaceInv
<1>2. /\ vCallback = <<>> /\ vBatching = <<>> /\ sb0 = <<>> /\ sb1 = <<>>
      /\ wire = <<>> /\ batchBuf = <<>>
      /\ pc = [t \in Threads |-> "idle"] /\ batchers = {} /\ conn = "up"
      /\ coreBatching = FALSE /\ canceling = -1 /\ calls = 0 /\ sent = {}
      /\ outcome = [c \in Call |-> "none"] /\ got = [c \in Call |-> 0]
    BY DEF Init
<1>3. Sending = {} /\ Held = {}
    BY <1>2 DEF Sending, Held
<1>4. /\ Range(vCallback) = {} /\ Range(vBatching) = {} /\ Range(sb0) = {} /\ Range(sb1) = {}
      /\ Range(wire) = {} /\ Range(batchBuf) = {}
    BY <1>2, EmptyInjective
<1>5. InUse = {}
    BY <1>3, <1>4 DEF InUse, Queued
<1>6. ContentsFit
    BY <1>2, <1>5 DEF ContentsFit
<1>7. CallsKept /\ CleanFits /\ HandsFit /\ BatchFits /\ CoreFits
    BY <1>2, <1>3 DEF CallsKept, CleanFits, HandsFit, BatchFits, CoreFits
<1>8. UpFits
  <2>1. Pairs = <<>> /\ Requests = <<>>
    BY <1>2 DEF Pairs, Requests
  <2>2. InLine(content, Pairs, Requests) /\ IsInjective(Requests)
    BY <2>1, EmptyInjective DEF InLine
  <2>3. PairsWait /\ RequestsHeard
    BY <1>4 DEF PairsWait, RequestsHeard
  <2>4. BatchApart
    BY <1>2, <1>3 DEF BatchApart, Sending
  <2> QED
    BY <1>4, <2>2, <2>3, <2>4 DEF UpFits
<1>9. GotFits
    BY <1>2 DEF GotFits
<1> QED
    BY <1>1, <1>2, <1>6, <1>7, <1>8, <1>9 DEF SessionInv

LEMMA NextSession ==
    ASSUME ProperUse, SessionInv, [Next]_vars
    PROVE  SessionInv' /\ [Final]_vars
<1> USE DEF ProperUse, SessionInv
<1>1. CASE UNCHANGED vars
  <2> USE DEF vars, handlerVars, threadVars, cleanVars, coreVars, callVars
  <2>1. PlaceInv'
    BY <1>1, NextType, NextOnePlace DEF PlaceInv
  <2>2. Sending' = Sending /\ Held' = Held /\ InUse' = InUse /\ Queued' = Queued
    BY <1>1 DEF Sending, Held, InUse, Queued
  <2>3. ContentsFit' /\ CallsKept' /\ CleanFits'
    BY <1>1, <2>2 DEF ContentsFit, CallsKept, CleanFits, HasCallback
  <2>4. HandsFit' /\ BatchFits' /\ CoreFits' /\ GotFits'
    BY <1>1, <2>2 DEF HandsFit, HandFits, BatchFits, CoreFits, GotFits
  <2>5. (conn = "up" => UpFits)'
    <3>1. Pushed' = Pushed /\ Stages' = Stages /\ Pairs' = Pairs /\ Requests' = Requests
      BY <1>1 DEF Pushed, Stages, Pairs, Requests
    <3>2. UpFits => PairsWait' /\ RequestsHeard' /\ BatchApart'
      BY <1>1, <2>2, <3>1 DEF UpFits, PairsWait, RequestsHeard, BatchApart, HasCallback
    <3> QED
      BY <1>1, <3>1, <3>2 DEF UpFits
  <2>6. (conn = "down" => DownFits)'
    BY <1>1 DEF DownFits
  <2> QED
    BY <1>1, <2>1, <2>3, <2>4, <2>5, <2>6
<1>2. ASSUME Next
      PROVE  SessionInv' /\ Final
  <2>0. PlaceInv'
    BY <1>2, NextType, NextOnePlace DEF PlaceInv
  <2>1. ASSUME NEW t \in Threads, Send(t) \/ SendMute(t)
        PROVE  SessionInv' /\ Final
    <3>1. UNCHANGED <<conn, got>>
      BY <2>1 DEF Send, SendPrepare, SendPush, SendCore, SendUndo, SendMute,
                  coreVars, callVars
    <3>2. Fits' /\ Final
      BY <2>1, SendPairs DEF Fits
    <3>3. HandsFit'
      BY <2>1, SendHands
    <3>4. BatchFits' /\ CoreFits'
      BY <2>1, SendBatch, SendCoreFits
    <3>5. conn = "up" => UpFits'
      BY <2>1, SendUp
    <3>6. conn = "down" => DownFits'
      BY <2>1, SendDown
    <3> QED
      BY <2>0, <3>1, <3>2, <3>3, <3>4, <3>5, <3>6 DEF Fits, GotFits
  <2>2. ASSUME NEW t \in Threads, Outside(t)
        PROVE  SessionInv' /\ Final
    <3>1. conn' = conn /\ got' = got
      BY <2>2, OutsideEffect DEF Outside, Batch, StartBatching, CommitBatchingMove,
          CommitBatchingCore, AbortBatchingClean, AbortBatchingCore, Cancel, callVars
    <3>2. Fits' /\ Final
      BY <2>2, BatchPairs DEF Fits, Outside
    <3>3. HandsFit' /\ BatchFits' /\ CoreFits'
      BY <2>2, OutsideHands, OutsideBatch, OutsideCore
    <3>4. conn = "up" => UpFits'
      BY <2>2, OutsideUp
    <3>5. conn = "down" => DownFits'
      BY <2>2, OutsideDown
    <3> QED
      BY <2>0, <3>1, <3>2, <3>3, <3>4, <3>5 DEF Fits, GotFits
  <2>3. ASSUME Delivery
        PROVE  SessionInv' /\ Final
    <3>1. Fits' /\ Final
      BY <2>3, WorkerPairs DEF Fits, Delivery, Clear
    <3>2. HandsFit' /\ BatchFits'
      BY <2>3, DeliveryHands, DeliveryBatch
    <3>3. CoreFits' /\ GotFits'
      BY <2>3, DeliveryCore
    <3>4. conn' = "up" => UpFits'
      BY <2>3, DeliveryUp
    <3>5. conn' = "down" => DownFits'
      BY <2>3, DeliveryDown
    <3> QED
      BY <2>0, <3>1, <3>2, <3>3, <3>4, <3>5 DEF Fits
  <2> QED
    BY <1>2, <2>1, <2>2, <2>3 DEF Next, Outside, Delivery, Clear
<1> QED
    BY <1>1, <1>2

(* CallbackKept, the promise behind m_vCallback and m_vBatching: in a      *)
(* session used as it has to be, a request that SendRequest accepted keeps *)
(* its callbacks until one of them runs or its batch is aborted, and its   *)
(* answer never finds the queue without them; for any number of threads,   *)
(* requests and closes.                                                    *)
THEOREM CallbacksKept ==
    ASSUME ProperUse
    PROVE  Spec => []CallbackKept
<1>1. Init => SessionInv
    BY InitSession
<1>2. SessionInv /\ [Next]_vars => SessionInv'
    BY NextSession
<1>3. SessionInv => CallbackKept
  <2> SUFFICES ASSUME SessionInv, NEW c \in sent
               PROVE  /\ outcome[c] # "unheard"
                      /\ HasCallback(c) /\ outcome[c] = "none" => Registered(c)
    BY DEF CallbackKept
  <2>1. c \in Call
    BY DEF SessionInv, PlaceInv, TypeOK, CallType
  <2>2. outcome[c] # "unheard"
    BY <2>1 DEF SessionInv, CallsKept
  <2>3. HasCallback(c) /\ outcome[c] = "none" => \E p \in Queued : content[p] = c
    BY DEF SessionInv, CallsKept
  <2>4. Queued \subseteq UNION {Range(q) : q \in {vCallback, vBatching, sb0, sb1}}
    BY DEF Queued
  <2> QED
    BY <2>2, <2>3, <2>4 DEF Registered
<1> QED
    BY <1>1, <1>2, <1>3, PTL DEF Spec

(* A step that runs no callback ends no call.                              *)
LEMMA NobodyCalled ==
    ASSUME FiresOnce, fired' = fired, \A c \in Call : Ended(c)' = Ended(c)
    PROVE  FiresOnce'
BY DEF FiresOnce

(* The pairs of a queue hold different calls that have not ended, so that  *)
(* one callback runs for each of them and none for the others.             *)
LEMMA DiscardFires ==
    ASSUME FiresOnce, ContentsFit, NEW q \in Seq(Pair), IsInjective(q),
           Range(q) \subseteq Queued, NEW why \in {"closed", "canceled"},
           Discard(q, why)
    PROVE  FiresOnce'
<1> DEFINE N(c) == {i \in DOMAIN q : content[q[i]] = c}
<1>1. ASSUME NEW c \in Call
      PROVE  fired'[c] = fired[c] + Cardinality(N(c))
    BY DEF Discard
<1>2. ASSUME NEW c \in Call
      PROVE  outcome'[c] = IF \E p \in Range(q) : content[p] = c THEN why ELSE outcome[c]
    BY DEF Discard, Settle
<1>3. ASSUME NEW c \in Call
      PROVE  fired'[c] = IF Ended(c)' THEN 1 ELSE 0
  <2>1. CASE \E i \in DOMAIN q : content[q[i]] = c
    <3>1. PICK i \in DOMAIN q : content[q[i]] = c
      BY <2>1
    <3>2. q[i] \in Range(q) /\ q[i] \in InUse
      BY DEF Range, InUse
    <3>3. ASSUME NEW j \in N(c)
          PROVE  j = i
      <4>1. q[j] \in InUse /\ content[q[j]] = content[q[i]]
        BY <3>1 DEF Range, InUse
      <4>2. q[j] = q[i]
        BY <3>2, <4>1 DEF ContentsFit
      <4> QED
        BY <4>2 DEF IsInjective
    <3>4. N(c) = {i}
      BY <3>1, <3>3
    <3> HIDE DEF N
    <3>5. Cardinality(N(c)) = 1
      BY <3>4, FS_Singleton
    <3>6. fired[c] = 0
      BY <3>1, <3>2 DEF ContentsFit, FiresOnce, Ended
    <3>7. outcome'[c] = why
      BY <1>2, <3>1, <3>2
    <3> QED
      BY <1>1, <3>5, <3>6, <3>7 DEF Ended
  <2>2. CASE ~\E i \in DOMAIN q : content[q[i]] = c
    <3>1. N(c) = {}
      BY <2>2
    <3> HIDE DEF N
    <3>2. Cardinality(N(c)) = 0
      BY <3>1, FS_EmptySet
    <3>3. outcome'[c] = outcome[c]
      BY <1>2, <2>2 DEF Range
    <3> QED
      BY <1>1, <3>2, <3>3 DEF FiresOnce, Ended
  <2> QED
    BY <2>1, <2>2
<1> HIDE DEF N
<1> QED
    BY <1>3 DEF FiresOnce

(* The answer runs one callback of the call at the front of both queues.   *)
LEMMA AnswerFires ==
    ASSUME FiresOnce, PlaceInv, ContentsFit, UpFits, ~Random,
           NEW how \in {"result", "exception"}, Answer(how)
    PROVE  FiresOnce'
<1> DEFINE d == wire[1]
<1>1. 1 \in DOMAIN wire /\ (RunCallback(d, how) \/ NoCallback(d))
    BY DEF Answer
<1>2. d \in Call
    BY <1>1, LenProperties DEF PlaceInv, TypeOK, CoreType
<1>3. fired \in [Call -> Nat] /\ outcome \in [Call -> Outcomes]
    BY DEF PlaceInv, TypeOK, CallType
<1>4. CASE ~HasCallback(d)
  <2>1. Matching(d) = {}
    BY <1>1, <1>4, FrontMatches
  <2>2. NoCallback(d)
    BY <1>1, <2>1 DEF RunCallback
  <2>3. fired' = fired /\ outcome' = outcome
    BY <1>2, <1>3, <1>4, <2>2 DEF NoCallback
  <2> QED
    BY <2>3, NobodyCalled DEF Ended
<1>5. CASE HasCallback(d)
  <2>1. /\ 1 \in DOMAIN vCallback /\ content[vCallback[1]] = d
        /\ Matching(d) = {1}
    BY <1>1, <1>5, FrontMatches
  <2>2. RunCallback(d, how)
    BY <1>1, <2>1 DEF NoCallback
  <2>3. /\ outcome' = [outcome EXCEPT ![d] = how]
        /\ fired' = [fired EXCEPT ![d] = @ + 1]
    BY <2>1, <2>2 DEF RunCallback
  <2>4. outcome[d] = "none"
    BY <2>1 DEF ContentsFit, InUse, Queued, Range
  <2>5. fired[d] = 0
    BY <1>2, <2>4 DEF FiresOnce, Ended
  <2> HIDE DEF d
  <2>6. fired'[d] = 1 /\ outcome'[d] = how
    BY <1>2, <1>3, <2>3, <2>5
  <2>7. \A c \in Call : c # d => fired'[c] = fired[c] /\ outcome'[c] = outcome[c]
    BY <1>3, <2>3
  <2> QED
    BY <2>6, <2>7 DEF FiresOnce, Ended
<1> QED
    BY <1>4, <1>5

LEMMA NextFired ==
    ASSUME ProperUse, SessionInv, FiresOnce, [Next]_vars
    PROVE  FiresOnce'
<1> USE DEF ProperUse, SessionInv
<1>1. \/ outcome' = outcome /\ fired' = fired
      \/ \E t \in Threads : AbortBatchingClean(t)
      \/ \E how \in {"result", "exception"} : Answer(how)
      \/ CleanCallbacksBatching \/ CleanCallbacksWaiting
    BY DEF Next, Send, SendPrepare, SendPush, SendCore, SendUndo, SendMute, Batch,
           StartBatching, CommitBatchingMove, CommitBatchingCore,
           AbortBatchingCore, Cancel, Worker, OnRequestProcessed, OnServerException,
           OnCanceled, OnSocketClosed, ClearResultCallbackPool, CoreClose, Reconnect,
           vars, callVars
<1>2. CASE outcome' = outcome /\ fired' = fired
    BY <1>2, NobodyCalled DEF Ended
<1>3. ASSUME NEW t \in Threads, AbortBatchingClean(t)
      PROVE  FiresOnce'
  <2>1. Settle(vBatching, "aborted") /\ fired' = fired
    BY <1>3 DEF AbortBatchingClean
  <2>2. ASSUME NEW c \in Call
        PROVE  Ended(c)' = Ended(c)
    <3>1. CASE \E p \in Range(vBatching) : content[p] = c
      <4>1. outcome'[c] = "aborted"
        BY <2>1, <3>1 DEF Settle
      <4>2. outcome[c] = "none"
        BY <3>1 DEF ContentsFit, InUse, Queued
      <4> QED
        BY <4>1, <4>2 DEF Ended
    <3>2. CASE ~\E p \in Range(vBatching) : content[p] = c
      <4>1. outcome'[c] = outcome[c]
        BY <2>1, <3>2 DEF Settle
      <4> QED
        BY <4>1 DEF Ended
    <3> QED
      BY <3>1, <3>2
  <2> QED
    BY <2>1, <2>2, NobodyCalled
<1>4. ASSUME NEW how \in {"result", "exception"}, Answer(how)
      PROVE  FiresOnce'
  <2>1. UpFits
    BY <1>4 DEF Answer
  <2> QED
    BY <1>4, <2>1, AnswerFires
<1>5. /\ sb0 \in Seq(Pair) /\ IsInjective(sb0) /\ Range(sb0) \subseteq Queued
      /\ sb1 \in Seq(Pair) /\ IsInjective(sb1) /\ Range(sb1) \subseteq Queued
      /\ cleaning # "no" => cleaning \in {"closed", "canceled"}
    BY DEF PlaceInv, TypeOK, CleanType, OnePlace, QueuesInjective, Queued
<1>6. CASE CleanCallbacksBatching
    BY <1>5, <1>6, DiscardFires DEF CleanCallbacksBatching
<1>7. CASE CleanCallbacksWaiting
    BY <1>5, <1>7, DiscardFires DEF CleanCallbacksWaiting
<1> QED
    BY <1>1, <1>2, <1>3, <1>4, <1>6, <1>7

(* FiresOnce: one callback of a call runs when it ends, and no second one, *)
(* whatever closes, cancels and aborts do to the queues.                   *)
THEOREM FiresAtMostOnce ==
    ASSUME ProperUse
    PROVE  Spec => []FiresOnce
<1>1. Init => SessionInv /\ FiresOnce
    BY InitSession DEF Init, FiresOnce, Ended
<1>2. SessionInv /\ FiresOnce /\ [Next]_vars => SessionInv' /\ FiresOnce'
    BY NextSession, NextFired
<1> QED
    BY <1>1, <1>2, PTL DEF Spec

(* OwnResult: GetAsyncResultHandler hands a result to the callback of its  *)
(* own request.  Only the order pairs results with requests, so that the   *)
(* session has to be used as it has to be.                                 *)
THEOREM ResultsReachOwners ==
    ASSUME ProperUse
    PROVE  Spec => []OwnResult
<1>1. Init => SessionInv
    BY InitSession
<1>2. SessionInv /\ [Next]_vars => SessionInv'
    BY NextSession
<1>3. SessionInv => OwnResult
    BY DEF SessionInv, GotFits, OwnResult
<1> QED
    BY <1>1, <1>2, <1>3, PTL DEF Spec
=============================================================================
