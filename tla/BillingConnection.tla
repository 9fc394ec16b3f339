-------------------------- MODULE BillingConnection --------------------------
(***************************************************************************)
(* The connection to Google Play and the product query: BillingManagerImpl *)
(* (a singleton) as driven by BillingRepository.initialize.                *)
(*                                                                         *)
(* initialize is called whenever the activity is composed, and by the      *)
(* paywall view model; each call is a coroutine that suspends in connect   *)
(* and in queryProducts and may be cancelled there.  Play answers through  *)
(* callbacks that are queued on the main thread.  The manager keeps ONE    *)
(* continuation for all callers of connect.                                *)
(***************************************************************************)
EXTENDS Integers, Sequences

CONSTANTS
    Callers,       \* coroutines running initialize
    None,          \* no continuation is stored
    MaxCallbacks   \* bound: Play has at most this many callbacks queued

ASSUME CallersAssumption == None \notin Callers /\ MaxCallbacks \in Nat \ {0}

ProductTypes == {"SUBS", "INAPP"}

VARIABLES
    link,          \* connection state of the BillingClient (isReady: "up")
    callbacks,     \* its callbacks, queued on the main thread
    isConnected,   \* _isConnected
    continuation,  \* connectionContinuation
    pc,            \* where each caller is suspended
    asked,         \* product queries of a caller that are not answered yet
    found,         \* allProducts of a caller, by product type
    products       \* _productDetailsFlow, by product type

play == <<link, callbacks>>
query == <<asked, found, products>>
vars == <<link, callbacks, isConnected, continuation, pc, asked, found, products>>

Init ==
    /\ link = "down"
    /\ callbacks = <<>>
    /\ isConnected = FALSE
    /\ continuation = None
    /\ pc = [c \in Callers |-> "idle"]
    /\ asked = [c \in Callers |-> {}]
    /\ found = [c \in Callers |-> {}]
    /\ products = {}

-----------------------------------------------------------------------------
(* Google Play (external) *)

Post(callback) ==
    /\ Len(callbacks) < MaxCallbacks
    /\ callbacks' = Append(callbacks, callback)

\* A connection attempt ends: isReady changes at once, the listener hears of
\* it when the main thread gets to the callback.
LinkUp ==
    /\ link = "connecting" /\ link' = "up" /\ Post("ok")
    /\ UNCHANGED <<isConnected, continuation, pc, query>>

LinkFails ==
    /\ link = "connecting" /\ link' = "down" /\ Post("error")
    /\ UNCHANGED <<isConnected, continuation, pc, query>>

LinkLost ==
    /\ link = "up" /\ link' = "down" /\ Post("disconnected")
    /\ UNCHANGED <<isConnected, continuation, pc, query>>

-----------------------------------------------------------------------------
(* connect *)

\* The effect of onBillingSetupFinished on the stored continuation cont.
Resume(cont, next) ==
    /\ pc' = IF cont = None THEN pc ELSE [pc EXCEPT ![cont] = next]
    /\ continuation' = None

\* A caller's name is used again once its queries are answered.
Idle(c) == pc[c] = "idle" /\ asked[c] = {}

ConnectReady(c) ==
    /\ Idle(c) /\ link = "up"
    /\ pc' = [pc EXCEPT ![c] = "query"]
    /\ UNCHANGED <<play, isConnected, continuation, query>>

ConnectStart(c) ==
    /\ Idle(c) /\ link = "down"
    /\ link' = "connecting"
    /\ continuation' = c
    /\ pc' = [pc EXCEPT ![c] = "awaitConnect"]
    /\ UNCHANGED <<callbacks, isConnected, query>>

\* startConnection while a connection is being set up: the library calls
\* onBillingSetupFinished(DEVELOPER_ERROR) before it returns, so that the
\* caller's own continuation, stored a moment ago, fails and is cleared.
ConnectBusy(c) ==
    /\ Idle(c) /\ link = "connecting"
    /\ Resume(c, "failed")
    /\ UNCHANGED <<play, isConnected, query>>

\* Mutation of OnBillingSetupFinished: the field is not cleared.
OnBillingSetupFinishedKept ==
    /\ callbacks # <<>> /\ Head(callbacks) \in {"ok", "error"}
    /\ callbacks' = Tail(callbacks)
    /\ isConnected' = (isConnected \/ Head(callbacks) = "ok")
    /\ pc' = IF continuation = None THEN pc
             ELSE [pc EXCEPT ![continuation] =
                      IF Head(callbacks) = "ok" THEN "query" ELSE "failed"]
    /\ UNCHANGED <<link, continuation, query>>

\* Mutation of OnBillingSetupFinished: a failed setup is only logged.
OnBillingSetupFinishedErrorIgnored ==
    /\ callbacks # <<>> /\ Head(callbacks) \in {"ok", "error"}
    /\ callbacks' = Tail(callbacks)
    /\ \/ /\ Head(callbacks) = "ok"
          /\ isConnected' = TRUE
          /\ Resume(continuation, "query")
       \/ /\ Head(callbacks) = "error"
          /\ UNCHANGED <<isConnected, continuation, pc>>
    /\ UNCHANGED <<link, query>>

OnBillingSetupFinished ==
    /\ callbacks # <<>> /\ Head(callbacks) \in {"ok", "error"}
    /\ callbacks' = Tail(callbacks)
    /\ \/ /\ Head(callbacks) = "ok"
          /\ isConnected' = TRUE
          /\ Resume(continuation, "query")
       \/ /\ Head(callbacks) = "error"
          /\ Resume(continuation, "failed")
          /\ UNCHANGED isConnected
    /\ UNCHANGED <<link, query>>

\* Mutation of OnBillingServiceDisconnected: the flag is set to null.
OnBillingServiceDisconnectedUnknown ==
    /\ callbacks # <<>> /\ Head(callbacks) = "disconnected"
    /\ callbacks' = Tail(callbacks)
    /\ isConnected' = None
    /\ UNCHANGED <<link, continuation, pc, query>>

\* Mutation of OnBillingServiceDisconnected: _isConnected is not reset.
OnBillingServiceDisconnectedKept ==
    /\ callbacks # <<>> /\ Head(callbacks) = "disconnected"
    /\ callbacks' = Tail(callbacks)
    /\ UNCHANGED <<link, isConnected, continuation, pc, query>>

OnBillingServiceDisconnected ==
    /\ callbacks # <<>> /\ Head(callbacks) = "disconnected"
    /\ callbacks' = Tail(callbacks)
    /\ isConnected' = FALSE
    /\ UNCHANGED <<link, continuation, pc, query>>

-----------------------------------------------------------------------------
(* queryProducts: both product types are among productIds *)

QueryUnconnected(c) ==
    /\ pc[c] = "query" /\ ~isConnected
    /\ pc' = [pc EXCEPT ![c] = "refresh"]
    /\ UNCHANGED <<play, isConnected, continuation, query>>

QueryProducts(c) ==
    /\ pc[c] = "query" /\ isConnected
    /\ pc' = [pc EXCEPT ![c] = "awaitProducts"]
    /\ asked' = [asked EXCEPT ![c] = ProductTypes]
    /\ found' = [found EXCEPT ![c] = {}]
    /\ UNCHANGED <<play, isConnected, continuation, products>>

\* Mutation of CheckCompletion: completion waits for one answer too many.
CheckCompletionNever(c, answered) == UNCHANGED <<products, pc>>

\* checkCompletion after the answers `answered` to the queries of caller c:
\* the last one publishes and resumes (resuming a cancelled caller is void).
CheckCompletion(c, answered) ==
    \/ /\ answered # ProductTypes
       /\ UNCHANGED <<products, pc>>
    \/ /\ answered = ProductTypes
       /\ products' = found'[c]
       /\ pc' = [pc EXCEPT ![c] = IF @ = "awaitProducts" THEN "refresh" ELSE @]

\* The callback of the query for one product type, in either order; a failed
\* query contributes nothing.
ProductsAnswered(c, type) ==
    /\ type \in asked[c]
    /\ asked' = [asked EXCEPT ![c] = @ \ {type}]
    /\ \E result \in {{}, {type}} :
          found' = [found EXCEPT ![c] = @ \cup result]
    /\ CheckCompletion(c, ProductTypes \ asked'[c])
    /\ UNCHANGED <<play, isConnected, continuation>>

-----------------------------------------------------------------------------
(* The rest of initialize *)

\* refreshPurchases (module PremiumEntitlement) and the return, or the return
\* of a failure.
Return(c) ==
    /\ pc[c] \in {"refresh", "failed"}
    /\ pc' = [pc EXCEPT ![c] = "idle"]
    /\ UNCHANGED <<play, isConnected, continuation, query>>

\* The caller's scope is cancelled; invokeOnCancellation of connect clears
\* the field, whoever's continuation it holds by now.
Cancel(c) ==
    /\ pc[c] # "idle"
    /\ pc' = [pc EXCEPT ![c] = "idle"]
    /\ continuation' = IF pc[c] = "awaitConnect" THEN None ELSE continuation
    /\ UNCHANGED <<play, isConnected, query>>

-----------------------------------------------------------------------------
Callback ==
    \/ OnBillingSetupFinished
    \/ OnBillingServiceDisconnected
    \/ \E c \in Callers, type \in ProductTypes : ProductsAnswered(c, type)

CallerStep(c) == QueryUnconnected(c) \/ QueryProducts(c) \/ Return(c)

Connect(c) == ConnectReady(c) \/ ConnectStart(c) \/ ConnectBusy(c)

Next ==
    \/ LinkUp \/ LinkFails \/ LinkLost
    \/ Callback
    \/ \E c \in Callers : Connect(c) \/ CallerStep(c) \/ Cancel(c)

\* A connection attempt ends and the main thread serves its queue; every
\* product query is answered; resumed coroutines run.
Fairness ==
    /\ WF_vars(LinkUp \/ LinkFails)
    /\ WF_vars(OnBillingSetupFinished \/ OnBillingServiceDisconnected)
    /\ \A c \in Callers :
          /\ \A type \in ProductTypes : WF_vars(ProductsAnswered(c, type))
          /\ WF_vars(CallerStep(c))

Spec == Init /\ [][Next]_vars /\ Fairness

-----------------------------------------------------------------------------
(* Properties *)

TypeOK ==
    /\ link \in {"down", "connecting", "up"}
    /\ callbacks \in Seq({"ok", "error", "disconnected"})
    /\ isConnected \in BOOLEAN
    /\ continuation \in Callers \cup {None}
    /\ pc \in [Callers -> {"idle", "awaitConnect", "query", "awaitProducts",
                           "refresh", "failed"}]
    /\ asked \in [Callers -> SUBSET ProductTypes]
    /\ found \in [Callers -> SUBSET ProductTypes]
    /\ products \in SUBSET ProductTypes

\* The stored continuation belongs to a caller that still waits in connect:
\* no callback can resume a coroutine a second time (which would throw) or
\* one that has gone on, however calls, cancellations and callbacks mix.
OwnerWaits == continuation # None => pc[continuation] = "awaitConnect"

\* Nobody waits in queryProducts without an answer still to come, although
\* the two answers arrive in any order and each may be a failure.
AnswerOutstanding ==
    \A c \in Callers : pc[c] = "awaitProducts" => asked[c] # {}

\* Once the queue is drained, _isConnected agrees with the real connection.
ConnectedTracksLink == callbacks = <<>> => isConnected = (link = "up")

\* Whoever's continuation is stored has a setup result on its way, although
\* callers start, overwrite each other and are cancelled at any moment and
\* results of earlier attempts may still be queued.
WakeupPending ==
    continuation # None =>
        \/ link = "connecting"
        \/ \E i \in DOMAIN callbacks : callbacks[i] \in {"ok", "error"}

\* "Store continuation to resume when connection is ready": the caller whose
\* continuation is stored is resumed, or another one takes its place.
OwnerReturns ==
    \A c \in Callers : continuation = c ~> continuation # c

\* Both answers come in, so every product query returns to its caller.
QueryReturns ==
    \A c \in Callers : pc[c] = "awaitProducts" ~> pc[c] # "awaitProducts"
==============================================================================
