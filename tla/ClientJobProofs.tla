-------------------------- MODULE ClientJobProofs --------------------------
(***************************************************************************)
(* What holds of a session with a message queue for any number of calls,   *)
(* closes and restarts and for any width of the callback numbers.          *)
(*                                                                         *)
(* The types hold for every use of the session.  That the callbacks stay   *)
(* in step with the file of the core holds for a client that starts a job  *)
(* with no callback waiting and not inside a job, sends and manages jobs   *)
(* on one thread, and lets the requests of an earlier process be answered  *)
(* before it sends.  Without any one of the four it does not hold.         *)
(***************************************************************************)
EXTENDS ClientJob, SequenceTheorems, TLAPS

(* The use of a session under which its jobs are managed correctly.        *)
ProperUse ==
    ~PendingAtStart /\ ~NestedStart /\ ~SharedSending /\ ~SendToLeftovers

(* There are never more callbacks than calls.                              *)
Counted == Len(vCallback) <= calls

(* The call that the core has not seen yet, as a sequence.                 *)
Pushed == IF sending = 0 THEN <<>> ELSE <<sending>>

(* The file holds requests of an earlier process: nothing is sent yet.     *)
Leftover ==
    /\ vCallback = <<>> /\ job = <<>> /\ sending = 0
    /\ Range(queue) \subseteq orphans

(* The file holds requests of this process: each has its callback.         *)
Current ==
    /\ Range(queue) \cap orphans = {}
    /\ vCallback = queue \o job \o Pushed

(* Every call that is known somewhere was made; the callbacks that wait    *)
(* belong to this process and to no aborted job.                           *)
Known ==
    /\ Range(queue) \union Range(vCallback) \union orphans \union aborted
            \subseteq 1 .. calls
    /\ Range(vCallback) \cap (orphans \union aborted) = {}

(* A job begins with an empty m_vCallback, and while it goes on nothing    *)
(* but its own requests is added.                                          *)
JobAlone ==
    IF inJob THEN nQIndex = 0 /\ (Current => queue = <<>>) ELSE job = <<>>

JobInv ==
    /\ TypeOK /\ Counted
    /\ Leftover \/ Current
    /\ Known
    /\ JobAlone
    /\ OwnResult
    /\ ~overrun
----------------------------------------------------------------------------
LEMMA Constants ==
    /\ MaxCalls \in Nat /\ MaxCloses \in Nat /\ MaxRestarts \in Nat
    /\ Call = 1 .. MaxCalls
    /\ <<>> \in Seq(Call) /\ Len(<<>>) = 0
BY ConstantsAssumption, EmptySeq DEF Call

(* A number of callbacks survives the unsigned difference.                 *)
LEMMA FitsWidth == \A n \in 0 .. MaxCalls : n % 2^Width = n
<1> DEFINE W == 2^Width
<1>1. MaxCalls \in Nat /\ W \in Int /\ MaxCalls < W
    BY ConstantsAssumption
<1> HIDE DEF W
<1>2. \A n \in 0 .. MaxCalls : n % W = n
    BY <1>1
<1> QED
    BY <1>2 DEF W

(* The last callbacks are cut off.                                         *)
LEMMA Prefix ==
    ASSUME NEW S, NEW s \in Seq(S), NEW n \in 0 .. Len(s)
    PROVE  SubSeq(s, 1, n) \in Seq(S) /\ Len(SubSeq(s, 1, n)) = n
<1>1. Len(s) \in Nat /\ \A i \in 1 .. n : s[i] \in S
    BY LenProperties
<1>2. (IF 1 <= n THEN n - 1 + 1 ELSE 0) = n
    BY <1>1
<1> QED
    BY <1>1, <1>2, SubSeqProperties

LEMMA EraseBackType ==
    ASSUME TypeOK, Counted, NEW n \in Nat, EraseBack(n)
    PROVE  /\ vCallback' \in Seq(Call) /\ Len(vCallback') <= Len(vCallback)
           /\ outcome' \in [Call -> {"none", "result", "discarded"}]
           /\ overrun' \in BOOLEAN
<1> DEFINE total == Len(vCallback)
           count == IF n > total THEN total ELSE n
<1>1. total \in Nat /\ vCallback \in Seq(Call)
    BY LenProperties DEF TypeOK
<1>2. count \in 0 .. total /\ total - count \in 0 .. total
    BY <1>1
<1>3. /\ vCallback' = SubSeq(vCallback, 1, total - count)
      /\ overrun' = (overrun \/ total - count > count)
    BY DEF EraseBack
<1>4. vCallback' \in Seq(Call) /\ Len(vCallback') = total - count
    BY <1>1, <1>2, <1>3, Prefix
<1>5. outcome' \in [Call -> {"none", "result", "discarded"}]
    BY DEF EraseBack, TypeOK
<1>6. overrun' \in BOOLEAN
    BY <1>3
<1> QED
    BY <1>1, <1>2, <1>4, <1>5, <1>6

LEMMA InitType == Init => TypeOK /\ Counted
<1> SUFFICES ASSUME Init
             PROVE  TypeOK /\ Counted
    OBVIOUS
<1>1. /\ outcome \in [Call -> {"none", "result", "discarded"}]
      /\ got \in [Call -> 0 .. MaxCalls]
    BY Constants DEF Init
<1>2. sentUp \in 0 .. Len(queue) /\ Counted
    BY Constants DEF Init, Counted
<1>3. overrun \in BOOLEAN /\ inJob \in BOOLEAN
    BY DEF Init
<1>4. vCallback \in Seq(Call) /\ job \in Seq(Call) /\ queue \in Seq(Call)
    BY Constants DEF Init
<1> QED
    BY <1>1, <1>2, <1>3, <1>4, Constants DEF Init, TypeOK

(* The types and the number of callbacks, action by action.                *)
LEMMA NextType == TypeOK /\ Counted /\ [Next]_vars => TypeOK' /\ Counted'
<1> SUFFICES ASSUME TypeOK, Counted, [Next]_vars
             PROVE  TypeOK' /\ Counted'
    OBVIOUS
<1> USE Constants
<1>1. /\ vCallback \in Seq(Call) /\ Len(vCallback) \in Nat
      /\ job \in Seq(Call) /\ queue \in Seq(Call) /\ Len(queue) \in Nat
      /\ calls \in 0 .. MaxCalls /\ Len(vCallback) <= calls
    BY LenProperties DEF TypeOK, Counted
<1>2. CASE SendPush
  <2>1. calls' \in Call /\ calls' = calls + 1
    BY <1>1, <1>2 DEF SendPush
  <2>2. vCallback' \in Seq(Call) /\ Len(vCallback') = Len(vCallback) + 1
    BY <1>1, <1>2, <2>1, AppendProperties DEF SendPush
  <2> QED
    BY SMTT(30), <1>1, <1>2, <2>1, <2>2 DEF SendPush, TypeOK, Counted, coreVars
<1>3. CASE SendCore
  <2>1. sending \in Call
    BY <1>3 DEF SendCore, TypeOK
  <2>2. /\ Append(job, sending) \in Seq(Call)
        /\ Append(queue, sending) \in Seq(Call)
        /\ Len(Append(queue, sending)) = Len(queue) + 1
    BY <1>1, <2>1, AppendProperties
  <2>3. job' \in Seq(Call) /\ queue' \in Seq(Call) /\ sentUp' \in 0 .. Len(queue')
    <3>1. sentUp' = sentUp /\ sentUp \in 0 .. Len(queue)
      BY <1>3 DEF SendCore, TypeOK
    <3>2. CASE inJob
      BY <1>1, <1>3, <2>2, <3>1, <3>2 DEF SendCore
    <3>3. CASE ~inJob
      <4>1. queue' = Append(queue, sending) /\ job' = job
        BY <1>3, <3>3 DEF SendCore
      <4>2. Len(queue') = Len(queue) + 1
        BY <2>2, <4>1
      <4>3. sentUp' \in 0 .. Len(queue')
        BY <1>1, <3>1, <4>2
      <4> QED
        BY <1>1, <2>2, <4>1, <4>3
    <3> QED
      BY <3>2, <3>3
  <2>4. /\ UNCHANGED <<vCallback, nQIndex, overrun, inJob, conn, closes, restarts,
                        historyVars>>
        /\ sending' = 0
    BY <1>3 DEF SendCore
  <2> QED
    BY SMTT(30), <2>3, <2>4 DEF TypeOK, Counted, historyVars
<1>4. CASE StartJob
    BY SMTT(30), <1>1, <1>4 DEF StartJob, TypeOK, Counted, historyVars
<1>5. CASE EndJob
  <2>1. /\ queue' \in Seq(Call) /\ Len(queue') = Len(queue) + Len(job)
        /\ Len(job) \in Nat
    BY <1>1, <1>5, ConcatProperties, LenProperties DEF EndJob
  <2>2. sentUp' \in 0 .. Len(queue')
    BY <1>1, <1>5, <2>1 DEF EndJob, TypeOK
  <2> QED
    BY <1>5, <2>1, <2>2 DEF EndJob, TypeOK, Counted, adapterVars, historyVars
<1>6. CASE AbortJob
  <2> DEFINE n == (Len(vCallback) - nQIndex) % 2^Width
  <2>1. n \in Nat
    <3> DEFINE W == 2^Width
    <3>1. W \in Int /\ W > 0 /\ Len(vCallback) - nQIndex \in Int
      BY <1>1, ConstantsAssumption DEF TypeOK
    <3> HIDE DEF W
    <3>2. (Len(vCallback) - nQIndex) % W \in Nat
      BY <3>1
    <3> QED
      BY <3>2 DEF W
  <2>2. EraseBack(n)
    BY <1>6 DEF AbortJob
  <2> HIDE DEF n
  <2>3. /\ vCallback' \in Seq(Call) /\ Len(vCallback') <= Len(vCallback)
        /\ outcome' \in [Call -> {"none", "result", "discarded"}]
        /\ overrun' \in BOOLEAN
    BY <2>1, <2>2, EraseBackType
  <2>4. Len(vCallback') \in Nat
    BY <2>3, LenProperties
  <2>5. aborted' \subseteq Call
    BY <1>1, <1>6, RangeOfSeq DEF AbortJob, TypeOK
  <2>6. UNCHANGED <<nQIndex, sending, queue, sentUp, conn, closes, restarts,
                    calls, got, orphans>> /\ inJob' = FALSE /\ job' = <<>>
    BY <1>6 DEF AbortJob
  <2>7. Counted'
    BY <1>1, <2>3, <2>4, <2>6 DEF Counted
  <2> QED
    BY <2>3, <2>5, <2>6, <2>7 DEF TypeOK
<1>7. CASE Transmit
    BY SMTT(30), <1>1, <1>7 DEF Transmit, TypeOK, Counted, adapterVars, historyVars
<1>8. CASE OnRequestProcessed
  <2>1. queue # <<>> /\ sentUp > 0 /\ sentUp \in 0 .. Len(queue)
    BY <1>1, <1>8 DEF OnRequestProcessed, TypeOK
  <2>2. /\ queue' \in Seq(Call) /\ Len(queue') = Len(queue) - 1
        /\ Head(queue) \in Call
    BY <1>1, <1>8, <2>1, HeadTailProperties DEF OnRequestProcessed
  <2>3. sentUp' \in 0 .. Len(queue')
    BY <1>1, <1>8, <2>1, <2>2 DEF OnRequestProcessed
  <2>4. /\ vCallback' \in Seq(Call) /\ Len(vCallback') <= Len(vCallback)
        /\ Len(vCallback') \in Nat
        /\ outcome' \in [Call -> {"none", "result", "discarded"}]
        /\ got' \in [Call -> 0 .. MaxCalls]
    <3>1. CASE vCallback = <<>>
      BY <1>1, <1>8, <3>1 DEF OnRequestProcessed, TypeOK
    <3>2. CASE vCallback # <<>>
      <4>1. /\ Head(vCallback) \in Call /\ Tail(vCallback) \in Seq(Call)
            /\ Len(Tail(vCallback)) = Len(vCallback) - 1
            /\ Len(Tail(vCallback)) \in Nat
        BY <1>1, <3>2, HeadTailProperties, LenProperties
      <4>2. /\ vCallback' = Tail(vCallback)
            /\ outcome' = [outcome EXCEPT ![Head(vCallback)] = "result"]
            /\ got' = [got EXCEPT ![Head(vCallback)] = Head(queue)]
        BY <1>8, <3>2 DEF OnRequestProcessed
      <4>3. /\ outcome \in [Call -> {"none", "result", "discarded"}]
            /\ got \in [Call -> 0 .. MaxCalls] /\ Head(queue) \in 0 .. MaxCalls
        BY SMTT(30), <2>2 DEF TypeOK
      <4>4. /\ outcome' \in [Call -> {"none", "result", "discarded"}]
            /\ got' \in [Call -> 0 .. MaxCalls]
        BY <4>1, <4>2, <4>3
      <4> QED
        BY <1>1, <4>1, <4>2, <4>4
    <3> QED
      BY <3>1, <3>2
  <2>5. Counted'
    BY <1>1, <1>8, <2>4 DEF Counted, OnRequestProcessed
  <2> QED
    BY <1>8, <2>2, <2>3, <2>4, <2>5 DEF OnRequestProcessed, TypeOK
<1>9. CASE OnSocketClosed
  <2>1. closes' \in 0 .. MaxCloses
    BY <1>9 DEF OnSocketClosed, TypeOK
  <2> QED
    BY <1>1, <1>9, <2>1
    DEF OnSocketClosed, TypeOK, Counted, adapterVars, historyVars
<1>10. CASE Reconnect
    BY <1>1, <1>10 DEF Reconnect, TypeOK, Counted, adapterVars, historyVars
<1>11. CASE Restart
  <2>1. restarts' \in 0 .. MaxRestarts /\ orphans' \subseteq Call
    BY <1>1, <1>11 DEF Restart, TypeOK
  <2>2. sentUp' \in 0 .. Len(queue') /\ Counted'
    BY <1>1, <1>11 DEF Restart, Counted
  <2>3. overrun' \in BOOLEAN /\ inJob' \in BOOLEAN
    BY <1>11 DEF Restart
  <2>4. vCallback' \in Seq(Call) /\ job' \in Seq(Call)
    BY <1>11 DEF Restart
  <2> QED
    BY <1>11, <2>1, <2>2, <2>3, <2>4 DEF Restart, TypeOK
<1>12. CASE UNCHANGED vars
    BY <1>12 DEF vars, adapterVars, coreVars, historyVars, TypeOK, Counted
<1> QED
    BY <1>2, <1>3, <1>4, <1>5, <1>6, <1>7, <1>8, <1>9, <1>10, <1>11, <1>12
    DEF Next

(* The state of a session with a queue keeps its types, whatever the       *)
(* client does with its jobs: no step of the handlers takes the head of an *)
(* empty queue or file.                                                    *)
THEOREM TypeCorrect == Spec => []TypeOK
<1>1. Init => TypeOK /\ Counted
    BY InitType
<1>2. TypeOK /\ Counted /\ [Next]_vars => TypeOK' /\ Counted'
    BY NextType
<1> QED
    BY <1>1, <1>2, PTL DEF Spec
----------------------------------------------------------------------------
(* Facts about the sequences of the invariant.                             *)
LEMMA PushedProperties ==
    ASSUME TypeOK
    PROVE  /\ Pushed \in Seq(Call)
           /\ sending # 0 => sending \in Call
           /\ Range(<<>>) = {}
<1>1. sending # 0 => sending \in Call
    BY Constants DEF TypeOK
<1>2. Pushed \in Seq(Call)
    BY <1>1, EmptySeq DEF Pushed
<1> QED
    BY <1>1, <1>2 DEF Range

LEMMA HeadTailConcat ==
    ASSUME NEW S, NEW s \in Seq(S), NEW t \in Seq(S), s # <<>>
    PROVE  /\ s \o t # <<>>
           /\ Head(s \o t) = Head(s)
           /\ Tail(s \o t) = Tail(s) \o t
<1>1. /\ Len(s) \in Nat \ {0} /\ Len(t) \in Nat
      /\ Tail(s) \in Seq(S) /\ Len(Tail(s)) = Len(s) - 1
      /\ \A i \in 1 .. Len(Tail(s)) : Tail(s)[i] = s[i + 1]
    BY EmptySeq, LenProperties, HeadTailProperties
<1>2. /\ s \o t \in Seq(S) /\ Len(s \o t) = Len(s) + Len(t)
      /\ \A i \in 1 .. Len(s) + Len(t) :
            (s \o t)[i] = IF i <= Len(s) THEN s[i] ELSE t[i - Len(s)]
    BY ConcatProperties
<1>3. s \o t # <<>>
    BY ConcatEqualIffEmpty
<1>4. /\ Tail(s \o t) \in Seq(S) /\ Len(Tail(s \o t)) = Len(s \o t) - 1
      /\ \A i \in 1 .. Len(Tail(s \o t)) : Tail(s \o t)[i] = (s \o t)[i + 1]
    BY <1>2, <1>3, HeadTailProperties
<1>5. /\ Tail(s) \o t \in Seq(S) /\ Len(Tail(s) \o t) = Len(s) - 1 + Len(t)
      /\ \A i \in 1 .. Len(s) - 1 + Len(t) : (Tail(s) \o t)[i] =
            IF i <= Len(s) - 1 THEN Tail(s)[i] ELSE t[i - (Len(s) - 1)]
    BY <1>1, ConcatProperties
<1>6. ASSUME NEW i \in 1 .. Len(s) - 1 + Len(t)
      PROVE  Tail(s \o t)[i] = (Tail(s) \o t)[i]
  <2>1. Tail(s \o t)[i] = (s \o t)[i + 1]
    BY <1>1, <1>2, <1>4
  <2>2. CASE i <= Len(s) - 1
    BY <1>1, <1>2, <1>5, <2>1, <2>2
  <2>3. CASE ~(i <= Len(s) - 1)
    <3>1. ~(i + 1 <= Len(s)) /\ (i + 1) - Len(s) = i - (Len(s) - 1)
      BY <1>1, <2>3
    <3> QED
      BY <1>1, <1>2, <1>5, <2>1, <2>3, <3>1
  <2> QED
    BY <2>2, <2>3
<1>7. Len(Tail(s \o t)) = Len(s) - 1 + Len(t)
    BY <1>1, <1>2, <1>4
<1>8. Tail(s \o t) = Tail(s) \o t
    BY <1>4, <1>5, <1>6, <1>7, SeqEqual
<1>9. Head(s \o t) = (s \o t)[1] /\ Head(s) = s[1]
    OBVIOUS
<1>10. (s \o t)[1] = s[1]
    BY <1>1, <1>2
<1> QED
    BY <1>3, <1>8, <1>9, <1>10

LEMMA TailRange ==
    ASSUME NEW S, NEW s \in Seq(S), s # <<>>
    PROVE  Range(Tail(s)) \subseteq Range(s) /\ Head(s) \in Range(s)
<1>1. /\ Len(s) \in Nat \ {0} /\ DOMAIN s = 1 .. Len(s)
      /\ Tail(s) \in Seq(S) /\ Len(Tail(s)) = Len(s) - 1
      /\ \A i \in 1 .. Len(Tail(s)) : Tail(s)[i] = s[i + 1]
    BY EmptySeq, LenProperties, HeadTailProperties
<1>2. DOMAIN Tail(s) = 1 .. Len(s) - 1
    BY <1>1, LenProperties
<1>3. Head(s) = s[1] /\ 1 \in DOMAIN s
    BY <1>1
<1>4. ASSUME NEW i \in DOMAIN Tail(s)
      PROVE  Tail(s)[i] \in Range(s)
  <2>1. Tail(s)[i] = s[i + 1] /\ i + 1 \in DOMAIN s
    BY <1>1, <1>2
  <2> QED
    BY <2>1 DEF Range
<1> QED
    BY <1>3, <1>4 DEF Range

LEMMA EmptyRange ==
    ASSUME NEW S, NEW s \in Seq(S), Range(s) = {}
    PROVE  s = <<>>
<1>1. SUFFICES ASSUME s # <<>>
               PROVE  FALSE
    OBVIOUS
<1>2. Len(s) \in Nat \ {0} /\ DOMAIN s = 1 .. Len(s)
    BY <1>1, EmptySeq, LenProperties
<1>3. s[1] \in Range(s)
    BY <1>2 DEF Range
<1> QED
    BY <1>3

LEMMA AppendRange ==
    ASSUME NEW S, NEW s \in Seq(S), NEW e \in S
    PROVE  Range(Append(s, e)) = Range(s) \union {e}
<1> DEFINE h == <<e>>
<1>1. Append(s, e) = s \o h /\ h \in Seq(S) /\ Range(h) = {e}
    BY AppendIsConcat DEF Range
<1> HIDE DEF h
<1>2. Range(s \o h) = Range(s) \union Range(h)
    BY <1>1, RangeConcatenation
<1> QED
    BY <1>1, <1>2

(* The invariant is what InStep says, and more.                            *)
LEMMA InStepFollows ==
    ASSUME TypeOK, Leftover \/ Current, ~overrun
    PROVE  InStep
<1>1. /\ queue \in Seq(Call) /\ job \in Seq(Call) /\ Len(queue) \in Nat
      /\ DOMAIN queue = 1 .. Len(queue) /\ Pushed \in Seq(Call)
    BY PushedProperties, LenProperties DEF TypeOK
<1>2. CASE Leftover
  <2>1. SubSeq(queue, Len(queue) + 1, Len(queue)) = <<>>
    BY <1>1, SubSeqEmpty
  <2>2. <<>> \o job \o Pushed = <<>>
    BY <1>2, ConcatEmptySeq DEF Leftover, Pushed
  <2>3. \A i \in 1 .. Len(queue) : queue[i] \in orphans <=> i <= Len(queue)
    BY <1>1, <1>2 DEF Leftover, Range
  <2>4. Len(queue) \in 0 .. Len(queue) /\ vCallback = <<>>
    BY <1>1, <1>2 DEF Leftover
  <2> QED
    BY <2>1, <2>2, <2>3, <2>4 DEF InStep, Pushed
<1>3. CASE Current
  <2>1. SubSeq(queue, 0 + 1, Len(queue)) = queue
    BY <1>1, SubSeqFull
  <2>2. \A i \in 1 .. Len(queue) : queue[i] \in orphans <=> i <= 0
    <3>1. \A i \in 1 .. Len(queue) : queue[i] \notin orphans
      BY <1>1, <1>3 DEF Current, Range
    <3>2. \A i \in 1 .. Len(queue) : ~(i <= 0)
      BY <1>1
    <3> QED
      BY <3>1, <3>2
  <2>3. vCallback = queue \o job \o Pushed /\ 0 \in 0 .. Len(queue)
    BY <1>1, <1>3 DEF Current
  <2> QED
    BY <2>1, <2>2, <2>3 DEF InStep, Pushed
<1> QED
    BY <1>2, <1>3
----------------------------------------------------------------------------
LEMMA InitJob == Init => JobInv
<1> SUFFICES ASSUME Init
             PROVE  JobInv
    OBVIOUS
<1>1. TypeOK /\ Counted
    BY InitType
<1>2. Range(<<>>) = {}
    BY DEF Range
<1>3. Leftover /\ Known
    BY <1>2 DEF Init, Leftover, Known
<1>4. JobAlone
    BY DEF Init, JobAlone
<1>5. OwnResult /\ ~overrun
    BY DEF Init, OwnResult
<1> QED
    BY <1>1, <1>3, <1>4, <1>5 DEF JobInv

(* SendRequest: the first call after a restart waits until the file holds  *)
(* nothing of an earlier process, so that Leftover is Current.             *)
LEMMA SendJob ==
    ASSUME ProperUse, JobInv, TypeOK', Counted', SendPush \/ SendCore
    PROVE  JobInv'
<1>1. /\ TypeOK /\ queue \in Seq(Call) /\ job \in Seq(Call)
      /\ vCallback \in Seq(Call) /\ Pushed \in Seq(Call)
      /\ calls \in 0 .. MaxCalls /\ calls' \in 0 .. MaxCalls
      /\ <<>> \in Seq(Call) /\ Range(<<>>) = {}
    BY PushedProperties, EmptySeq DEF JobInv, TypeOK
<1>2. OwnResult' /\ ~overrun'
    BY DEF JobInv, OwnResult, SendPush, SendCore, historyVars
<1>3. CASE SendPush
  <2>1. /\ calls' = calls + 1 /\ calls' \in Call /\ sending' = calls'
        /\ vCallback' = Append(vCallback, calls')
        /\ sending = 0 /\ Range(queue) \cap orphans = {}
        /\ UNCHANGED <<nQIndex, inJob, job, queue, orphans, aborted>>
    BY <1>1, <1>3, Constants DEF SendPush, ProperUse, coreVars
  <2>2. Current
    <3>1. CASE Leftover
      <4>1. queue = <<>>
        <5>1. Range(queue) = {}
          BY <2>1, <3>1 DEF Leftover
        <5> QED
          BY <1>1, <5>1, EmptyRange
      <4>2. vCallback = queue \o job \o Pushed
        BY <3>1, <4>1, <1>1, ConcatEmptySeq DEF Leftover, Pushed
      <4> QED
        BY <2>1, <4>2 DEF Current
    <3> QED
      BY <3>1 DEF JobInv
  <2>3. Current'
    <3>1. Pushed = <<>> /\ Pushed' = <<calls'>>
      BY <2>1, Constants DEF Pushed
    <3>2. vCallback = queue \o job /\ queue \o job \in Seq(Call)
      BY <1>1, <2>2, <3>1, ConcatEmptySeq, ConcatProperties DEF Current
    <3>3. vCallback' = (queue \o job) \o <<calls'>>
      BY <2>1, <3>2, AppendIsConcat
    <3> QED
      BY <2>1, <3>1, <3>3 DEF Current
  <2>4. Known'
    <3>1. Range(vCallback') = Range(vCallback) \union {calls'}
      BY <1>1, <2>1, AppendRange
    <3>2. calls' \in 1 .. calls' /\ calls' \notin 1 .. calls
          /\ 1 .. calls \subseteq 1 .. calls'
      BY <1>1, <2>1
    <3> QED
      BY <2>1, <3>1, <3>2 DEF JobInv, Known
  <2>5. JobAlone'
    BY <2>1, <2>2 DEF JobInv, JobAlone
  <2> QED
    BY <1>2, <2>3, <2>4, <2>5 DEF JobInv
<1>4. CASE SendCore
  <2>1. /\ sending # 0 /\ sending \in Call /\ sending' = 0
        /\ UNCHANGED <<vCallback, nQIndex, inJob, calls, orphans, aborted>>
    BY <1>1, <1>4, PushedProperties DEF SendCore, historyVars
  <2>2. Current /\ ~Leftover
    BY <2>1 DEF JobInv, Leftover
  <2> DEFINE h == <<sending>>
  <2>3. /\ Pushed = h /\ h \in Seq(Call) /\ Pushed' = <<>>
        /\ Append(queue, sending) = queue \o h /\ Append(job, sending) = job \o h
        /\ Range(h) = {sending}
    BY <1>1, <2>1, AppendIsConcat DEF Pushed, Range
  <2> HIDE DEF h
  <2>12. h \in Seq(Call) /\ queue \in Seq(Call) /\ job \in Seq(Call)
    BY <1>1, <2>3
  <2>13. queue \o job \in Seq(Call)
    BY <2>12, ConcatProperties
  <2>4. vCallback = (queue \o job) \o h
    BY <2>2, <2>3 DEF Current
  <2>5. Range(vCallback) = Range(queue) \union Range(job) \union {sending}
    <3>1. Range((queue \o job) \o h) = Range(queue \o job) \union Range(h)
      BY ZenonT(40), <2>12, <2>13, RangeConcatenation
    <3>2. Range(queue \o job) = Range(queue) \union Range(job)
      BY <2>12, RangeConcatenation
    <3> QED
      BY <2>3, <2>4, <3>1, <3>2
  <2>6. sending \notin orphans /\ sending \in 1 .. calls
    BY <2>5 DEF JobInv, Known
  <2>7. vCallback = queue' \o job' /\ queue' \in Seq(Call) /\ job' \in Seq(Call)
        /\ Range(queue') \subseteq Range(queue) \union {sending}
    <3>1. CASE inJob
      <4>1. queue' = queue /\ job' = job \o h
        BY <1>4, <2>3, <3>1 DEF SendCore
      <4>2. (queue \o job) \o h = queue \o (job \o h)
        BY SMTT(30), <2>12, ConcatAssociative
      <4>3. job \o h \in Seq(Call)
        BY <2>12, ConcatProperties
      <4> QED
        BY <1>1, <2>4, <4>1, <4>2, <4>3
    <3>2. CASE ~inJob
      <4>1. queue' = queue \o h /\ job' = <<>> /\ job = <<>>
        BY <1>4, <2>3, <3>2 DEF SendCore, JobInv, JobAlone
      <4>2. vCallback = queue \o h /\ queue \o h \in Seq(Call)
        BY <1>1, <2>3, <2>4, <4>1, ConcatEmptySeq, ConcatProperties
      <4>3. Range(queue') = Range(queue) \union {sending}
        BY <1>1, <2>3, <4>1, RangeConcatenation
      <4> QED
        BY <1>1, <4>1, <4>2, <4>3, ConcatEmptySeq
    <3> QED
      BY <3>1, <3>2
  <2>8. vCallback' = queue' \o job' \o Pushed'
    BY <2>1, <2>3, <2>7, ConcatEmptySeq, ConcatProperties
  <2>9. Current'
    BY <2>1, <2>2, <2>6, <2>7, <2>8 DEF Current
  <2>10. Known'
    BY <2>1, <2>6, <2>7 DEF JobInv, Known
  <2>11. JobAlone'
    BY <1>4, <2>1, <2>2 DEF JobInv, JobAlone, SendCore
  <2> QED
    BY <1>2, <2>9, <2>10, <2>11 DEF JobInv
<1> QED
    BY <1>3, <1>4

(* StartJob, EndJob and AbortJob.  A job starts with no callback, hence    *)
(* with no request of this process in the file; AbortJob then erases all   *)
(* callbacks, which are those of the job.                                  *)
LEMMA JobsJob ==
    ASSUME ProperUse, JobInv, TypeOK', Counted', StartJob \/ EndJob \/ AbortJob
    PROVE  JobInv'
<1>0. /\ TypeOK /\ queue \in Seq(Call) /\ job \in Seq(Call)
      /\ vCallback \in Seq(Call) /\ calls \in 0 .. MaxCalls
      /\ Len(vCallback) <= calls
    BY DEF JobInv, TypeOK, Counted
<1>1. /\ TypeOK /\ queue \in Seq(Call) /\ job \in Seq(Call)
      /\ vCallback \in Seq(Call) /\ Pushed \in Seq(Call)
      /\ Len(vCallback) \in Nat /\ Len(vCallback) <= MaxCalls
      /\ DOMAIN vCallback = 1 .. Len(vCallback)
      /\ <<>> \in Seq(Call) /\ Range(<<>>) = {}
  <2>1. Len(vCallback) \in Nat /\ DOMAIN vCallback = 1 .. Len(vCallback)
    BY <1>0, LenProperties
  <2>2. Len(vCallback) <= MaxCalls
    BY <1>0, <2>1, Constants
  <2> QED
    BY <1>0, <2>1, <2>2, PushedProperties, Constants
<1>2. /\ sending = 0 /\ Pushed = <<>>
      /\ UNCHANGED <<sending, calls, orphans, got>>
    BY DEF StartJob, EndJob, AbortJob, MayUseJob, ProperUse, Pushed,
           adapterVars, historyVars
<1>3. Current => vCallback = queue \o job
    BY <1>1, <1>2, ConcatEmptySeq, ConcatProperties DEF Current
<1>4. OwnResult'
    BY <1>2 DEF JobInv, OwnResult
<1>5. CASE StartJob
  <2>1. /\ ~inJob /\ vCallback = <<>> /\ inJob' /\ nQIndex' = 0
        /\ UNCHANGED <<vCallback, sending, overrun, job, queue, historyVars>>
    BY <1>1, <1>5, EmptySeq DEF StartJob, ProperUse
  <2>2. Current => queue = <<>>
    <3>1. queue \o job = <<>> <=> queue = <<>> /\ job = <<>>
      BY <1>0, ConcatEqualIffEmpty
    <3> QED
      BY <1>3, <2>1, <3>1
  <2>3. (Leftover \/ Current)' /\ Known' /\ ~overrun' /\ (Current' <=> Current)
    BY <2>1 DEF JobInv, Leftover, Current, Pushed, Known, historyVars
  <2>4. JobAlone'
    BY <2>1, <2>2, <2>3 DEF JobAlone
  <2> QED
    BY <1>4, <2>3, <2>4 DEF JobInv
<1>6. CASE EndJob
  <2>1. /\ inJob /\ ~inJob' /\ queue' = queue \o job /\ job' = <<>>
        /\ UNCHANGED <<adapterVars, historyVars>>
    BY <1>6 DEF EndJob
  <2>2. JobAlone' /\ ~overrun'
    BY <2>1 DEF JobInv, JobAlone, adapterVars, historyVars
  <2>3. CASE Leftover
    <3>1. queue' = queue
      BY <1>1, <2>1, <2>3, ConcatEmptySeq DEF Leftover
    <3> QED
      BY <1>4, <2>1, <2>2, <2>3, <3>1
      DEF JobInv, Leftover, Known, adapterVars, historyVars
  <2>4. CASE Current
    <3>1. vCallback = queue \o job
      BY <1>3, <2>4
    <3>2. queue' = vCallback /\ vCallback' = vCallback /\ Pushed' = <<>>
      BY <1>2, <2>1, <3>1 DEF adapterVars, Pushed
    <3>3. vCallback' = queue' \o job' \o Pushed'
      BY <1>1, <2>1, <3>2, ConcatEmptySeq
    <3>4. Range(vCallback) \cap orphans = {}
      BY DEF JobInv, Known
    <3>5. Current' /\ Known'
      BY <2>1, <3>2, <3>3, <3>4 DEF Current, JobInv, Known, historyVars
    <3> QED
      BY <1>4, <2>2, <3>5 DEF JobInv
  <2> QED
    BY <2>3, <2>4 DEF JobInv
<1>7. CASE AbortJob
  <2> DEFINE total == Len(vCallback)
  <2>1. /\ inJob /\ ~inJob' /\ job' = <<>> /\ queue' = queue
        /\ aborted' = aborted \union Range(job) /\ nQIndex = 0
        /\ EraseBack((total - nQIndex) % 2^Width)
    BY <1>7 DEF AbortJob, JobInv, JobAlone
  <2>2. (total - nQIndex) % 2^Width = total
    BY <1>1, <2>1, FitsWidth
  <2>3. EraseBack(total)
    BY <2>1, <2>2
  <2>4. /\ vCallback' = SubSeq(vCallback, 1, 0)
        /\ overrun' = (overrun \/ 0 > total)
    BY <1>1, <2>3 DEF EraseBack
  <2>5. vCallback' = <<>> /\ overrun' = overrun
    <3>1. SubSeq(vCallback, 1, 0) = <<>>
      BY SubSeqEmpty
    <3>2. ~(0 > total)
      BY <1>1
    <3>3. overrun \in BOOLEAN
      BY <1>1 DEF TypeOK
    <3> QED
      BY <2>4, <3>1, <3>2, <3>3
  <2>6. Range(job) = Range(vCallback)
    <3>1. CASE Leftover
      BY <3>1 DEF Leftover
    <3>2. CASE Current
      <4>1. queue = <<>> /\ vCallback = queue \o job
        BY <1>3, <2>1, <3>2 DEF JobInv, JobAlone
      <4> QED
        BY <1>1, <4>1, ConcatEmptySeq
    <3> QED
      BY <3>1, <3>2 DEF JobInv
  <2>7. Known'
    BY <1>1, <1>2, <2>1, <2>5, <2>6 DEF JobInv, Known
  <2>8. JobAlone' /\ ~overrun'
    BY <2>1, <2>5 DEF JobInv, JobAlone
  <2>9. (Leftover \/ Current)'
    <3>1. CASE Leftover
      BY <1>2, <2>1, <2>5, <3>1 DEF Leftover
    <3>2. CASE Current
      <4>1. queue = <<>>
        BY <2>1, <3>2 DEF JobInv, JobAlone
      <4> QED
        BY <1>1, <1>2, <2>1, <2>5, <4>1 DEF Leftover
    <3> QED
      BY <3>1, <3>2 DEF JobInv
  <2> QED
    BY <1>4, <2>7, <2>8, <2>9 DEF JobInv
<1> QED
    BY <1>5, <1>6, <1>7

(* An answer: the front of the file and the front callback are the same    *)
(* call, or the file is of an earlier process and no callback waits.       *)
LEMMA AnswerJob ==
    ASSUME JobInv, TypeOK', Counted', OnRequestProcessed
    PROVE  JobInv'
<1>1. /\ TypeOK /\ queue \in Seq(Call) /\ job \in Seq(Call)
      /\ vCallback \in Seq(Call) /\ Pushed \in Seq(Call)
    BY PushedProperties DEF JobInv, TypeOK
<1>2. /\ queue # <<>> /\ queue' = Tail(queue)
      /\ UNCHANGED <<nQIndex, sending, overrun, inJob, job, calls, aborted,
                     orphans>>
  <2>1. sentUp > 0 /\ sentUp \in 0 .. Len(queue)
    BY <1>1 DEF OnRequestProcessed, TypeOK
  <2>2. Len(queue) # 0
    BY <1>1, <2>1, LenProperties
  <2> QED
    BY <2>2, EmptySeq DEF OnRequestProcessed
<1>3. Range(queue') \subseteq Range(queue) /\ Head(queue) \in Range(queue)
    BY <1>1, <1>2, TailRange
<1>4. CASE Leftover
  <2>1. UNCHANGED <<vCallback, outcome, got>>
    BY <1>4 DEF Leftover, OnRequestProcessed
  <2>2. Leftover' /\ Known'
    BY <1>2, <1>3, <1>4, <2>1 DEF Leftover, JobInv, Known
  <2>3. JobAlone'
    <3>1. Current' => queue' = <<>>
      <4>1. SUFFICES ASSUME Current'
                     PROVE  queue' = <<>>
        OBVIOUS
      <4>2. Range(queue') = {}
        BY <1>2, <1>3, <1>4, <4>1 DEF Leftover, Current
      <4>3. queue' \in Seq(Call)
        BY DEF TypeOK
      <4> QED
        BY <4>2, <4>3, EmptyRange
    <3> QED
      BY <1>2, <3>1 DEF JobInv, JobAlone
  <2>4. OwnResult' /\ ~overrun'
    BY <1>2, <2>1 DEF JobInv, OwnResult
  <2> QED
    BY <2>2, <2>3, <2>4 DEF JobInv
<1>5. CASE Current
  <2> DEFINE rest == job \o Pushed
  <2>1. rest \in Seq(Call) /\ vCallback = queue \o rest
    BY SMTT(30), <1>1, <1>5, ConcatProperties, ConcatAssociative DEF Current
  <2> HIDE DEF rest
  <2>2. /\ vCallback # <<>> /\ Head(vCallback) = Head(queue)
        /\ Tail(vCallback) = Tail(queue) \o rest
    BY <1>1, <1>2, <2>1, HeadTailConcat
  <2>3. /\ vCallback' = Tail(vCallback)
        /\ got' = [got EXCEPT ![Head(vCallback)] = Head(queue)]
    BY <2>2 DEF OnRequestProcessed
  <2>4. Range(vCallback') \subseteq Range(vCallback)
        /\ Head(vCallback) \in Range(vCallback)
    BY <1>1, <2>2, <2>3, TailRange
  <2>5. Current'
    <3>1. Tail(queue) \in Seq(Call)
      BY <1>1, <1>2, HeadTailProperties
    <3>2. Tail(queue) \o rest = (Tail(queue) \o job) \o Pushed
      <4>1. job \in Seq(Call) /\ Pushed \in Seq(Call)
        BY <1>1
      <4> QED
        BY <3>1, <4>1, ConcatAssociative DEF rest
    <3>3. Pushed' = Pushed
      BY <1>2 DEF Pushed
    <3>4. vCallback' = queue' \o job' \o Pushed'
      BY <1>2, <2>2, <2>3, <3>2, <3>3
    <3> QED
      BY <1>2, <1>3, <1>5, <3>4 DEF Current
  <2>6. Known'
    BY <1>2, <1>3, <2>4 DEF JobInv, Known
  <2>7. JobAlone'
    BY <1>2, <1>5 DEF JobInv, JobAlone
  <2>8. OwnResult'
    BY <1>1, <2>2, <2>3 DEF JobInv, OwnResult, TypeOK
  <2>9. ~overrun'
    BY <1>2 DEF JobInv
  <2> QED
    BY <2>5, <2>6, <2>7, <2>8, <2>9 DEF JobInv
<1> QED
    BY <1>4, <1>5 DEF JobInv

(* A restart leaves the file, and everything in it is of an earlier        *)
(* process then.                                                           *)
LEMMA RestartJob ==
    ASSUME JobInv, TypeOK', Counted', Restart
    PROVE  JobInv'
<1>1. /\ vCallback' = <<>> /\ job' = <<>> /\ sending' = 0 /\ ~inJob' /\ ~overrun'
      /\ orphans' = 1 .. calls /\ UNCHANGED <<queue, calls, outcome, got, aborted>>
    BY DEF Restart
<1>2. Range(<<>>) = {}
    BY DEF Range
<1>3. Leftover' /\ Known'
    BY <1>1, <1>2 DEF JobInv, Leftover, Known
<1>4. JobAlone' /\ OwnResult' /\ ~overrun'
    BY <1>1 DEF JobInv, JobAlone, OwnResult
<1> QED
    BY <1>3, <1>4 DEF JobInv

LEMMA NextJob == ProperUse /\ JobInv /\ [Next]_vars => JobInv'
<1> SUFFICES ASSUME ProperUse, JobInv, [Next]_vars
             PROVE  JobInv'
    OBVIOUS
<1>1. TypeOK' /\ Counted'
    BY NextType DEF JobInv
<1>2. CASE SendPush \/ SendCore
    BY <1>1, <1>2, SendJob
<1>3. CASE StartJob \/ EndJob \/ AbortJob
    BY <1>1, <1>3, JobsJob
<1>4. CASE OnRequestProcessed
    BY <1>1, <1>4, AnswerJob
<1>5. CASE Restart
    BY <1>1, <1>5, RestartJob
<1>6. CASE Transmit \/ OnSocketClosed \/ Reconnect \/ UNCHANGED vars
  <2>1. UNCHANGED <<adapterVars, inJob, job, queue, historyVars>>
    BY <1>6 DEF Transmit, OnSocketClosed, Reconnect, vars, coreVars
  <2> QED
    BY <1>1, <2>1
    DEF JobInv, Leftover, Current, Pushed, Known, JobAlone, OwnResult,
        adapterVars, historyVars
<1> QED
    BY <1>2, <1>3, <1>4, <1>5, <1>6 DEF Next

LEMMA JobsManaged ==
    ASSUME ProperUse
    PROVE  Spec => []JobInv
<1>1. Init => JobInv
    BY InitJob
<1>2. JobInv /\ [Next]_vars => JobInv'
    BY NextJob
<1> QED
    BY <1>1, <1>2, PTL DEF Spec

(* For a client that uses its jobs properly, m_vCallback stays in step     *)
(* with the file of the core through jobs, closes and restarts.            *)
THEOREM CallbacksInStep ==
    ASSUME ProperUse
    PROVE  Spec => []InStep
<1>1. JobInv => InStep
    BY InStepFollows DEF JobInv
<1> QED
    BY <1>1, JobsManaged, PTL

(* Its results, also those of requests that were sent again, reach their   *)
(* own callbacks.                                                          *)
THEOREM ResultsReachOwners ==
    ASSUME ProperUse
    PROVE  Spec => []OwnResult
<1>1. JobInv => OwnResult
    BY DEF JobInv
<1> QED
    BY <1>1, JobsManaged, PTL
=============================================================================
