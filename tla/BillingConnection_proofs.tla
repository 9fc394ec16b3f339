----------------------- MODULE BillingConnection_proofs -----------------------
(***************************************************************************)
(* Proofs about BillingConnection for any number of callers of initialize  *)
(* and any length of the callback queue.                                   *)
(***************************************************************************)
EXTENDS BillingConnection, SequenceTheorems, TLAPS

\* Only the last callback other than a failed setup decides what _isConnected
\* will be once the queue is drained, and it tells the truth about the link.
LastWordTrue ==
    /\ (\A i \in DOMAIN callbacks : callbacks[i] = "error")
          => (isConnected <=> link = "up")
    /\ \A i \in DOMAIN callbacks :
          /\ callbacks[i] # "error"
          /\ \A j \in DOMAIN callbacks : j > i => callbacks[j] = "error"
          => (callbacks[i] = "ok" <=> link = "up")

ConnInv == TypeOK /\ OwnerWaits /\ AnswerOutstanding /\ LastWordTrue

LEMMA ConnInit == Init => ConnInv
<1> SUFFICES ASSUME Init PROVE ConnInv
  OBVIOUS
<1>1. TypeOK
  <2>1. callbacks \in Seq({"ok", "error", "disconnected"})
    BY EmptySeq DEF Init
  <2>2. QED
    BY <2>1 DEF Init, TypeOK
<1>2. OwnerWaits /\ AnswerOutstanding
  BY DEF Init, OwnerWaits, AnswerOutstanding
<1>3. LastWordTrue
  BY DEF Init, LastWordTrue
<1>4. QED
  BY <1>1, <1>2, <1>3 DEF ConnInv

\* Appending callback x, with the link state l that goes with it.
LEMMA AppendLastWord ==
    ASSUME TypeOK, LastWordTrue,
           NEW x \in {"ok", "error", "disconnected"},
           callbacks' = Append(callbacks, x),
           isConnected' = isConnected,
           x = "error" => (link' = "up" <=> link = "up"),
           x # "error" => (x = "ok" <=> link' = "up")
    PROVE  LastWordTrue'
<1> DEFINE n == Len(callbacks)
<1>1. /\ callbacks \in Seq({"ok", "error", "disconnected"}) /\ n \in Nat
      /\ DOMAIN callbacks = 1 .. n
      /\ DOMAIN callbacks' = 1 .. (n + 1)
      /\ callbacks'[n + 1] = x
      /\ \A i \in 1 .. n : callbacks'[i] = callbacks[i]
  BY DEF TypeOK
<1>2. n + 1 \in DOMAIN callbacks' /\ \A i \in 1 .. n : i \in DOMAIN callbacks'
  BY <1>1
<1>3. CASE x = "error"
  BY <1>1, <1>2, <1>3 DEF LastWordTrue
<1>4. CASE x # "error"
  <2>1. ~(\A i \in DOMAIN callbacks' : callbacks'[i] = "error")
    BY <1>1, <1>2, <1>4
  <2>2. ASSUME NEW i \in DOMAIN callbacks',
               \A j \in DOMAIN callbacks' : j > i => callbacks'[j] = "error"
        PROVE  i = n + 1
    BY <1>1, <1>2, <1>4, <2>2
  <2>3. QED
    BY <1>1, <1>4, <2>1, <2>2 DEF LastWordTrue
<1>5. QED
  BY <1>3, <1>4

\* Serving the head of the queue as the listener does.
LEMMA TailLastWord ==
    ASSUME TypeOK, LastWordTrue, callbacks # <<>>,
           callbacks' = Tail(callbacks), link' = link,
           Head(callbacks) = "ok" => isConnected',
           Head(callbacks) = "disconnected" => ~isConnected',
           Head(callbacks) = "error" => (isConnected' <=> isConnected)
    PROVE  LastWordTrue'
<1> DEFINE n == Len(callbacks)
<1>1. /\ callbacks \in Seq({"ok", "error", "disconnected"})
      /\ n \in Nat /\ n > 0
      /\ DOMAIN callbacks = 1 .. n
      /\ DOMAIN callbacks' = 1 .. (n - 1)
      /\ Head(callbacks) = callbacks[1]
      /\ callbacks[1] \in {"ok", "error", "disconnected"}
      /\ \A i \in 1 .. (n - 1) : callbacks'[i] = callbacks[i + 1]
  BY DEF TypeOK
<1>2. \A i \in 1 .. n : i = 1 \/ (i - 1 \in 1 .. (n - 1) /\ callbacks'[i - 1] = callbacks[i])
  BY <1>1
<1>3. ASSUME \A i \in DOMAIN callbacks' : callbacks'[i] = "error"
      PROVE  isConnected' <=> link' = "up"
  <2>1. ASSUME NEW i \in 1 .. n, i > 1 PROVE callbacks[i] = "error"
    <3>1. i - 1 \in DOMAIN callbacks' /\ callbacks'[i - 1] = callbacks[i]
      BY <1>1, <1>2, <2>1
    <3>2. QED
      BY <1>3, <3>1
  <2>2. CASE callbacks[1] = "error"
    BY <1>1, <2>1, <2>2 DEF LastWordTrue
  <2>3. CASE callbacks[1] # "error"
    BY <1>1, <2>1, <2>3 DEF LastWordTrue
  <2>4. QED
    BY <2>2, <2>3
<1>4. ASSUME NEW i \in DOMAIN callbacks', callbacks'[i] # "error",
             \A j \in DOMAIN callbacks' : j > i => callbacks'[j] = "error"
      PROVE  callbacks'[i] = "ok" <=> link' = "up"
  <2>1. i + 1 \in DOMAIN callbacks /\ callbacks[i + 1] = callbacks'[i]
    BY <1>1
  <2>2. ASSUME NEW j \in DOMAIN callbacks, j > i + 1
        PROVE  callbacks[j] = "error"
    <3>1. j - 1 \in DOMAIN callbacks' /\ j - 1 > i /\ callbacks'[j - 1] = callbacks[j]
      BY <1>1, <2>2
    <3>2. QED
      BY <1>4, <3>1
  <2>3. QED
    BY <1>4, <2>1, <2>2 DEF LastWordTrue
<1>5. QED
  BY <1>3, <1>4 DEF LastWordTrue

LEMMA ConnStep == ConnInv /\ [Next]_vars => ConnInv'
<1> SUFFICES ASSUME ConnInv, [Next]_vars PROVE ConnInv'
  OBVIOUS
<1> USE CallersAssumption DEF ConnInv, OwnerWaits, AnswerOutstanding
<1>frame. ASSUME UNCHANGED <<callbacks, isConnected>>, link' = "up" <=> link = "up"
          PROVE  LastWordTrue'
  BY <1>frame DEF LastWordTrue
<1>1. CASE LinkUp \/ LinkFails \/ LinkLost
  <2>1. LastWordTrue'
    <3>1. CASE LinkUp
      BY <3>1, AppendLastWord DEF LinkUp, Post
    <3>2. CASE LinkFails
      BY <3>2, AppendLastWord DEF LinkFails, Post
    <3>3. CASE LinkLost
      BY <3>3, AppendLastWord DEF LinkLost, Post
    <3>4. QED
      BY <1>1, <3>1, <3>2, <3>3
  <2>2. callbacks' \in Seq({"ok", "error", "disconnected"})
    BY <1>1, AppendProperties DEF LinkUp, LinkFails, LinkLost, Post, TypeOK
  <2>3. TypeOK' /\ OwnerWaits' /\ AnswerOutstanding'
    BY <1>1, <2>2 DEF LinkUp, LinkFails, LinkLost, query, TypeOK
  <2>4. QED
    BY <2>1, <2>3
<1>2. CASE OnBillingSetupFinished
  <2>1. LastWordTrue'
    BY <1>2, TailLastWord DEF OnBillingSetupFinished
  <2>2. TypeOK'
    <3>1. callbacks' \in Seq({"ok", "error", "disconnected"})
      BY <1>2, HeadTailProperties DEF OnBillingSetupFinished, TypeOK
    <3>2. pc' \in [Callers -> {"idle", "awaitConnect", "query",
                               "awaitProducts", "refresh", "failed"}]
      BY <1>2 DEF OnBillingSetupFinished, Resume, TypeOK
    <3>3. QED
      BY <1>2, <3>1, <3>2 DEF OnBillingSetupFinished, Resume, query, TypeOK
  <2>3. OwnerWaits' /\ AnswerOutstanding'
    BY <1>2 DEF OnBillingSetupFinished, Resume, query, TypeOK
  <2>4. QED
    BY <2>1, <2>2, <2>3
<1>3. CASE OnBillingServiceDisconnected
  <2>1. LastWordTrue'
    BY <1>3, TailLastWord DEF OnBillingServiceDisconnected
  <2>2. callbacks' \in Seq({"ok", "error", "disconnected"})
    BY <1>3, HeadTailProperties DEF OnBillingServiceDisconnected, TypeOK
  <2>3. TypeOK' /\ OwnerWaits' /\ AnswerOutstanding'
    BY <1>3, <2>2 DEF OnBillingServiceDisconnected, query, TypeOK
  <2>4. QED
    BY <2>1, <2>3
<1>4. ASSUME NEW c \in Callers, NEW type \in ProductTypes,
             ProductsAnswered(c, type)
      PROVE  ConnInv'
  <2>1. LastWordTrue'
    BY <1>4, <1>frame DEF ProductsAnswered, play
  <2>2. TypeOK'
    BY <1>4 DEF ProductsAnswered, CheckCompletion, play, TypeOK
  <2>3. OwnerWaits'
    BY <1>4 DEF ProductsAnswered, CheckCompletion, TypeOK
  <2>4. AnswerOutstanding'
    BY <1>4 DEF ProductsAnswered, CheckCompletion, TypeOK
  <2>5. QED
    BY <2>1, <2>2, <2>3, <2>4
<1>5. ASSUME NEW c \in Callers, Connect(c) PROVE ConnInv'
  <2>1. LastWordTrue'
    BY <1>5, <1>frame DEF Connect, ConnectReady, ConnectStart, ConnectBusy, play
  <2>2. QED
    BY <1>5, <2>1 DEF Connect, ConnectReady, ConnectStart, ConnectBusy, Idle,
                      Resume, play, query, TypeOK
<1>6. ASSUME NEW c \in Callers, CallerStep(c) PROVE ConnInv'
  <2>1. LastWordTrue'
    BY <1>6, <1>frame DEF CallerStep, QueryUnconnected, QueryProducts, Return, play
  <2>2. CASE QueryUnconnected(c) \/ Return(c)
    BY <2>1, <2>2 DEF QueryUnconnected, Return, play, query, TypeOK
  <2>3. CASE QueryProducts(c)
    <3>1. ProductTypes # {} /\ ProductTypes \in SUBSET ProductTypes
      BY DEF ProductTypes
    <3>2. TypeOK' /\ OwnerWaits'
      BY <2>3, <3>1 DEF QueryProducts, play, TypeOK
    <3>3. AnswerOutstanding'
      BY <2>3, <3>1 DEF QueryProducts, TypeOK
    <3>4. QED
      BY <2>1, <3>2, <3>3
  <2>4. QED
    BY <1>6, <2>2, <2>3 DEF CallerStep
<1>7. ASSUME NEW c \in Callers, Cancel(c) PROVE ConnInv'
  <2>1. LastWordTrue'
    BY <1>7, <1>frame DEF Cancel, play
  <2>2. QED
    BY <1>7, <2>1 DEF Cancel, play, query, TypeOK
<1>8. CASE UNCHANGED vars
  BY <1>8, <1>frame DEF vars, TypeOK
<1>9. QED
  BY <1>1, <1>2, <1>3, <1>4, <1>5, <1>6, <1>7, <1>8 DEF Next, Callback

LEMMA ConnAlways == Spec => []ConnInv
BY ConnInit, ConnStep, PTL DEF Spec

\* No callback ever resumes a caller that is not waiting in connect.
THEOREM ResumeIsSafe == Spec => []OwnerWaits
BY ConnAlways, PTL DEF ConnInv

\* Nobody waits in queryProducts for answers that have all come in.
THEOREM NoLostAnswer == Spec => []AnswerOutstanding
BY ConnAlways, PTL DEF ConnInv

\* With the queue drained, _isConnected is the truth about the connection.
THEOREM ConnectedIsTrue == Spec => []ConnectedTracksLink
<1>1. ConnInv => ConnectedTracksLink
  <2> SUFFICES ASSUME ConnInv, callbacks = <<>>
               PROVE  isConnected = (link = "up")
    BY DEF ConnectedTracksLink
  <2>1. isConnected <=> link = "up"
    BY DEF ConnInv, LastWordTrue
  <2>2. QED
    BY <2>1 DEF ConnInv, TypeOK
<1>2. QED
  BY <1>1, ConnAlways, PTL

\* The connection, its queue and the callers keep their types.
THEOREM TypeCorrect == Spec => []TypeOK
BY ConnAlways, PTL DEF ConnInv

\* Some setup result waits in the queue.
ResultQueued == \E i \in DOMAIN callbacks : callbacks[i] \in {"ok", "error"}

\* Appending a callback loses no result.
LEMMA AppendKeepsResult ==
    ASSUME TypeOK, ResultQueued, NEW x \in {"ok", "error", "disconnected"},
           callbacks' = Append(callbacks, x)
    PROVE  ResultQueued'
<1> DEFINE n == Len(callbacks)
<1>1. /\ callbacks \in Seq({"ok", "error", "disconnected"}) /\ n \in Nat
      /\ DOMAIN callbacks = 1 .. n
      /\ DOMAIN callbacks' = 1 .. (n + 1)
      /\ \A k \in 1 .. n : callbacks'[k] = callbacks[k]
  BY DEF TypeOK
<1>2. PICK i \in 1 .. n : callbacks[i] \in {"ok", "error"}
  BY <1>1 DEF ResultQueued
<1>3. i \in DOMAIN callbacks' /\ callbacks'[i] \in {"ok", "error"}
  BY <1>1, <1>2
<1>4. QED  BY <1>3 DEF ResultQueued

\* Serving a callback that is no result moves the results up.
LEMMA TailKeepsResult ==
    ASSUME TypeOK, ResultQueued, callbacks # <<>>, Head(callbacks) = "disconnected",
           callbacks' = Tail(callbacks)
    PROVE  ResultQueued'
<1> DEFINE n == Len(callbacks)
<1>1. /\ callbacks \in Seq({"ok", "error", "disconnected"})
      /\ n \in Nat /\ n > 0
      /\ DOMAIN callbacks = 1 .. n
      /\ DOMAIN callbacks' = 1 .. (n - 1)
      /\ Head(callbacks) = callbacks[1]
      /\ \A k \in 1 .. (n - 1) : callbacks'[k] = callbacks[k + 1]
  BY DEF TypeOK
<1>2. PICK i \in 1 .. n : callbacks[i] \in {"ok", "error"}
  BY <1>1 DEF ResultQueued
<1>3. i # 1  BY <1>1, <1>2
<1>4. i - 1 \in 1 .. (n - 1) /\ callbacks'[i - 1] = callbacks[i]
  BY <1>1, <1>3
<1>5. QED  BY <1>1, <1>2, <1>4 DEF ResultQueued

LEMMA WakeupStep == ConnInv /\ WakeupPending /\ [Next]_vars => WakeupPending'
<1> SUFFICES ASSUME ConnInv, WakeupPending, [Next]_vars, continuation' # None
             PROVE  \/ link' = "connecting"
                    \/ ResultQueued'
  BY DEF WakeupPending, ResultQueued
<1>t. TypeOK  BY DEF ConnInv
<1>1. CASE LinkUp \/ LinkFails
  <2>1. PICK x \in {"ok", "error"} : callbacks' = Append(callbacks, x)
    BY <1>1 DEF LinkUp, LinkFails, Post
  <2>2. Len(callbacks) + 1 \in DOMAIN callbacks' /\ callbacks'[Len(callbacks) + 1] = x
    BY <1>t, <2>1 DEF TypeOK
  <2>3. QED  BY <2>2 DEF ResultQueued
<1>2. CASE LinkLost
  <2>1. ResultQueued /\ callbacks' = Append(callbacks, "disconnected")
    BY <1>2 DEF LinkLost, Post, WakeupPending, ResultQueued
  <2>2. QED  BY <1>t, <2>1, AppendKeepsResult
<1>3. CASE OnBillingSetupFinished
  BY <1>3 DEF OnBillingSetupFinished, Resume
<1>4. CASE OnBillingServiceDisconnected
  <2>1. CASE link = "connecting"
    BY <1>4, <2>1 DEF OnBillingServiceDisconnected
  <2>2. CASE ResultQueued
    BY <1>4, <1>t, <2>2, TailKeepsResult DEF OnBillingServiceDisconnected
  <2>3. QED
    BY <1>4, <2>1, <2>2 DEF OnBillingServiceDisconnected, WakeupPending, ResultQueued
<1>5. ASSUME NEW c \in Callers, ConnectStart(c)
      PROVE  link' = "connecting"
  BY <1>5 DEF ConnectStart
<1>6. ASSUME NEW c \in Callers, ConnectBusy(c)
      PROVE  FALSE
  BY <1>6 DEF ConnectBusy, Resume
<1>7. CASE UNCHANGED play /\ continuation # None
  BY <1>7 DEF play, WakeupPending, ResultQueued
<1>8. CASE UNCHANGED vars
  BY <1>8 DEF vars, WakeupPending, ResultQueued
<1>9. CASE ~(UNCHANGED play /\ continuation # None) /\ Next
  BY <1>1, <1>2, <1>3, <1>4, <1>5, <1>6, <1>9
  DEF Next, Callback, ProductsAnswered, Connect, ConnectReady, CallerStep,
      QueryUnconnected, QueryProducts, Return, Cancel
<1>10. QED  BY <1>7, <1>8, <1>9

\* For any number of callers and any queue, the caller whose continuation is
\* stored in connect has a setup result on its way.
THEOREM WakeupNotLost == Spec => []WakeupPending
<1>1. Init => WakeupPending  BY DEF Init, WakeupPending
<1>2. QED  BY <1>1, ConnAlways, WakeupStep, PTL DEF Spec
===============================================================================
