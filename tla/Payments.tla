------------------------------- MODULE Payments -------------------------------
(***************************************************************************)
(* Paid GraphQL requests.  A client pays for a request with the next        *)
(* voucher of its Nitro payment channel and names it in the x-payment       *)
(* header.  The voucher and the request travel on different connections:    *)
(* a request that is first waits for its payment, at most until a timeout.  *)
(*                                                                          *)
(* The server reads vouchers in one loop, credits each one with what it     *)
(* adds to the channel, and wakes the waiting requests one after the other. *)
(* Credits are held in caches that may lose entries, and are not persisted. *)
(*                                                                          *)
(* Every step here is what runs between two awaits.  A channel of           *)
(* ts-channel hands a pushed value over to a pending shift.                 *)
(***************************************************************************)
EXTENDS Integers, FiniteSets, SequencesExt

CONSTANTS
    Account,        \* Nitro accounts of clients
    Ledger,         \* their payment channels
    Payer,          \* Payer[c], the account that pays on channel c
    Request,        \* the GraphQL requests
    Through,        \* Through[r], the channel r pays on; NoVoucher for requests
                    \* that ask for free queries, with EMPTY_VOUCHER_HASH
    Client,         \* Client[r], the account that signs
    Selections,     \* Selections[r], the costs of its paid query selections
    PaymentAmount,  \* what a voucher adds to its channel
    FreeLimit,      \* freeQueriesLimit
    ActiveLimit,    \* maxSimultaneousRequests
    NoVoucher, NoPayment,
    Losses,         \* what may be lost: "voucher", "account", "channel" entries
                    \* of the caches, "restart" all of them
    MaxLosses       \* bound on the number of losses

ASSUME PaymentsAssumption ==
    /\ IsFiniteSet(Request)
    /\ Payer \in [Ledger -> Account]
    /\ Through \in [Request -> Ledger \cup {NoVoucher}]
    /\ Client \in [Request -> Account]
    /\ \A r \in Request : Through[r] # NoVoucher => Payer[Through[r]] = Client[r]
    /\ Selections \in [Request -> Seq(Nat \ {0})]
    /\ {PaymentAmount, ActiveLimit, FreeLimit} \subseteq Nat
    /\ ActiveLimit > 0
    /\ Losses \subseteq {"voucher", "account", "channel", "restart"}
    /\ MaxLosses \in Nat
    /\ NoVoucher \notin Ledger
    /\ NoPayment \notin Int

VARIABLES
    made,       \* vouchers the payer of a channel has made
    inbox,      \* vouchers that receivedVouchers() has not given yet
    stored,     \* the last voucher of a channel in the store of the Nitro node
    paidSoFar,  \* paidSoFarOnChannel
    received,   \* receivedPayments: the amount of a voucher
    free,       \* remainingFreeQueriesMap
    loop,       \* subscribeToVouchers
    listeners,  \* paymentListeners
    requests,   \* the requests
    credited,   \* history: all that was credited on a channel
    spent,      \* history: how often a voucher was accepted
    served,     \* history: the cost of all selections let through on a channel
    losses      \* the kinds of losses so far

serverVars == <<paidSoFar, received, free, loop, listeners>>
history == <<credited, spent, served>>
vars == <<made, inbox, stored, serverVars, requests, history, losses>>

-------------------------------------------------------------------------------
\* the vouchers of a channel are numbered; each request makes at most one
Voucher == Ledger \X (1..Cardinality(Request))

AmountOf(v) == v[2] * PaymentAmount

PayerOf(v) == Payer[v[1]]

Selecting == [pc |-> "select", voucher |-> NoVoucher, todo |-> <<>>, live |-> FALSE]

NewRequest == [pc |-> "new", voucher |-> NoVoucher, next |-> 1, payer |-> NoVoucher,
               result |-> "none"]

\* the requests the server works at; the others wait in the queue before it
Active == {r \in Request : requests[r].pc \notin {"new", "sent", "done"}}

Cost(r) == Selections[r][requests[r].next]

Credit(c) == IF paidSoFar[c] = NoPayment THEN 0 ELSE paidSoFar[c]

-------------------------------------------------------------------------------
(* The client.                                                               *)

\* provider.send: sendPayment, and the request with the voucher in its header
SendRequest(r) ==
    LET c == Through[r]
        v == <<c, made[c] + 1>>
    IN
    /\ requests[r].pc = "new"
    /\ IF c = NoVoucher
       THEN /\ requests' = [requests EXCEPT ![r].pc = "sent"]
            /\ UNCHANGED <<made, inbox, stored>>
       ELSE /\ requests' = [requests EXCEPT ![r].pc = "sent", ![r].voucher = v]
            /\ made' = [made EXCEPT ![c] = @ + 1]
            /\ UNCHANGED <<inbox, stored>>
    /\ UNCHANGED <<serverVars, history, losses>>

\* the Nitro node of the server stores the next voucher of a channel
ReceiveVoucher(c) ==
    LET v == <<c, stored[c] + 1>> IN
    /\ stored[c] < made[c]
    /\ stored' = [stored EXCEPT ![c] = @ + 1]
    /\ inbox' = Append(inbox, v)
    /\ UNCHANGED <<made, serverVars, requests, history, losses>>

\* a rejected client sends the request again, with the voucher it has paid with
RetryRequest(r) ==
    /\ requests[r].pc = "done"
    /\ requests[r].result = "not received"
    /\ requests' = [requests EXCEPT ![r] = [NewRequest EXCEPT !.pc = "sent",
                                                              !.voucher = requests[r].voucher]]
    /\ UNCHANGED <<made, inbox, stored, serverVars, history, losses>>

-------------------------------------------------------------------------------
(* The requests at the server.                                               *)

\* the queue of the server lets the next request in
AdmitRequest(r) ==
    /\ requests[r].pc = "sent"
    /\ Cardinality(Active) < ActiveLimit
    /\ requests' = [requests EXCEPT ![r].pc = "check"]
    /\ UNCHANGED <<made, inbox, stored, serverVars, history, losses>>

Answer(r, result) == [requests EXCEPT ![r].pc = "done", ![r].result = result]

\* validateGQLRequest has no paid selection left
ServeRequest(r) ==
    /\ requests[r].pc = "check"
    /\ requests[r].next > Len(Selections[r])
    /\ requests' = Answer(r, "served")
    /\ UNCHANGED <<made, inbox, stored, serverVars, history, losses>>

HasSelection(r) == requests[r].pc = "check" /\ requests[r].next <= Len(Selections[r])

CountQuota(a) == free' = [free EXCEPT ![a] = @ - 1]

\* allowRequest with EMPTY_VOUCHER_HASH
UseFreeQuota(r) ==
    /\ HasSelection(r)
    /\ requests[r].voucher = NoVoucher
    /\ IF free[Client[r]] > 0
       THEN /\ CountQuota(Client[r])
            /\ requests' = [requests EXCEPT ![r].next = @ + 1]
       ELSE /\ requests' = Answer(r, "quota")
            /\ UNCHANGED free
    /\ UNCHANGED <<made, inbox, stored, paidSoFar, received, loop, listeners, history,
                   losses>>

PaymentOf(r) == received[requests[r].voucher]

\* mutant: the payment stays in the cache
KeepPayment(v) == UNCHANGED received

TakePayment(v) == received' = [received EXCEPT ![v] = NoPayment]

\* mutant: a payment of any amount is accepted
AnyAmount(r) == TRUE

Suffices(r) == PaymentOf(r) >= Cost(r)

\* acceptReceivedPayment, when there is a payment; then is the state of a
\* request that goes on
Accept(r, passed, insufficient) ==
    IF Suffices(r)
    THEN /\ TakePayment(requests[r].voucher)
         /\ spent' = [spent EXCEPT ![requests[r].voucher] = @ + 1]
         /\ served' = [served EXCEPT ![requests[r].voucher[1]] = @ + Cost(r)]
         /\ requests' = passed
    ELSE /\ requests' = insufficient
         /\ UNCHANGED <<received, spent, served>>

\* authenticatePayment finds the payment at once
FindPayment(r) ==
    /\ HasSelection(r)
    /\ requests[r].voucher # NoVoucher
    /\ PaymentOf(r) # NoPayment
    /\ Accept(r, [requests EXCEPT ![r].next = @ + 1], Answer(r, "insufficient"))
    /\ UNCHANGED <<made, inbox, stored, paidSoFar, free, loop, listeners, credited, losses>>

\* or listens: the array is shared with the loop that goes through it
Listen(r) ==
    /\ HasSelection(r)
    /\ requests[r].voucher # NoVoucher
    /\ PaymentOf(r) = NoPayment
    /\ listeners' = Append(listeners, r)
    /\ loop' = IF loop.live THEN [loop EXCEPT !.todo = Append(@, r)] ELSE loop
    /\ requests' = [requests EXCEPT ![r].pc = "wait"]
    /\ UNCHANGED <<made, inbox, stored, paidSoFar, received, free, history, losses>>

\* the shift of the listener has got a payer
Wake(r) ==
    /\ requests[r].pc = "woken"
    /\ IF requests[r].payer # Client[r] \/ PaymentOf(r) = NoPayment
       THEN /\ requests' = [requests EXCEPT ![r].pc = "wait", ![r].payer = NoVoucher]
            /\ UNCHANGED <<received, spent, served>>
       ELSE Accept(r, [requests EXCEPT ![r].pc = "closing", ![r].result = "paid"],
                      [requests EXCEPT ![r].pc = "closing", ![r].result = "insufficient"])
    /\ UNCHANGED <<made, inbox, stored, paidSoFar, free, loop, listeners, credited, losses>>

\* requestTimeoutInSecs have passed
TimeOut(r) ==
    /\ requests[r].pc = "wait"
    /\ requests' = [requests EXCEPT ![r].pc = "closing", ![r].result = "not received"]
    /\ UNCHANGED <<made, inbox, stored, serverVars, history, losses>>

\* mutant: the listener stays in the array
EveryListener(r) == listeners

OtherListeners(r) ==
    RemoveAt(listeners, CHOOSE i \in DOMAIN listeners : listeners[i] = r)

\* the finally block, after close(): the array is replaced, the loop keeps the old
RemoveListener(r) ==
    /\ requests[r].pc = "closing"
    /\ listeners' = OtherListeners(r)
    /\ loop' = [loop EXCEPT !.live = FALSE]
    /\ requests' = IF requests[r].result = "paid"
                   THEN [requests EXCEPT ![r].pc = "check", ![r].next = @ + 1,
                                         ![r].result = "none", ![r].payer = NoVoucher]
                   ELSE [requests EXCEPT ![r].pc = "done", ![r].payer = NoVoucher]
    /\ UNCHANGED <<made, inbox, stored, paidSoFar, received, free, history, losses>>

-------------------------------------------------------------------------------
(* subscribeToVouchers.                                                      *)

TakeVoucher ==
    /\ loop.pc = "select"
    /\ inbox # <<>>
    /\ loop' = [loop EXCEPT !.pc = "credit", !.voucher = Head(inbox)]
    /\ inbox' = Tail(inbox)
    /\ UNCHANGED <<made, stored, paidSoFar, received, free, listeners, requests, history,
                   losses>>

\* what the voucher adds to the channel
Added(v) == AmountOf(v) - Credit(v[1])

\* mutant: no listener is notified
NoneWaiting == <<>>

Waiting == listeners

\* after getPaymentChannel
CreditVoucher ==
    LET v == loop.voucher IN
    /\ loop.pc = "credit"
    /\ paidSoFar' = [paidSoFar EXCEPT ![v[1]] = AmountOf(v)]
    /\ received' = [received EXCEPT ![v] = Added(v)]
    /\ credited' = [credited EXCEPT ![v[1]] = @ + Added(v)]
    /\ loop' = [loop EXCEPT !.pc = "notify", !.todo = Waiting, !.live = TRUE]
    /\ UNCHANGED <<made, inbox, stored, free, listeners, requests, spent, served,
                   losses>>

\* the value is handed to the shift of the next listener
Notify(r) ==
    /\ loop.pc = "notify"
    /\ loop.todo # <<>>
    /\ r = Head(loop.todo)
    /\ requests[r].pc = "wait"
    /\ requests' = [requests EXCEPT ![r].pc = "woken", ![r].payer = PayerOf(loop.voucher)]
    /\ loop' = [loop EXCEPT !.todo = Tail(@)]
    /\ UNCHANGED <<made, inbox, stored, paidSoFar, received, free, listeners, history, losses>>

\* mutant: the loop waits for a listener that has been closed
WaitForClosed(r) == FALSE

\* or the listener has been closed: its channel refuses the value, which ends
\* the loop, or has got it before and drops it
NotifyClosed(r) ==
    /\ loop.pc = "notify"
    /\ loop.todo # <<>>
    /\ r = Head(loop.todo)
    /\ requests[r].pc \notin {"wait", "woken"}
    /\ loop' \in {[Selecting EXCEPT !.pc = "ended"], [loop EXCEPT !.todo = Tail(@)]}
    /\ UNCHANGED <<made, inbox, stored, paidSoFar, received, free, listeners, requests,
                   history, losses>>

AllNotified ==
    /\ loop.pc = "notify"
    /\ loop.todo = <<>>
    /\ loop' = Selecting
    /\ UNCHANGED <<made, inbox, stored, paidSoFar, received, free, listeners, requests,
                   history, losses>>

-------------------------------------------------------------------------------
(* Losses.                                                                   *)

Lose(kind) ==
    /\ kind \in Losses
    /\ Cardinality(losses) < MaxLosses
    /\ losses' = losses \cup {kind}

\* an entry of the caches has reached its age, or the cache its limit
ForgetPayment ==
    /\ Lose("voucher")
    /\ \E v \in Voucher : received[v] # NoPayment
                          /\ received' = [received EXCEPT ![v] = NoPayment]
    /\ UNCHANGED <<made, inbox, stored, paidSoFar, free, loop, listeners, requests, history>>

ForgetAccount ==
    /\ Lose("account")
    /\ \E a \in Account :
          /\ \E v \in Voucher : PayerOf(v) = a /\ received[v] # NoPayment
          /\ received' = [v \in Voucher |-> IF PayerOf(v) = a THEN NoPayment ELSE received[v]]
    /\ UNCHANGED <<made, inbox, stored, paidSoFar, free, loop, listeners, requests, history>>

ForgetChannel ==
    /\ Lose("channel")
    /\ \E c \in Ledger : paidSoFar[c] # NoPayment
                         /\ paidSoFar' = [paidSoFar EXCEPT ![c] = NoPayment]
    /\ UNCHANGED <<made, inbox, stored, received, free, loop, listeners, requests, history>>

\* mutant: the amounts of the channels are not loaded
LoadNothing == [c \in Ledger |-> NoPayment]

\* loadPaymentChannels
LoadPaymentChannels == [c \in Ledger |-> AmountOf(<<c, stored[c]>>)]

\* the server goes down and comes up; clients see their requests fail
Restart ==
    /\ Lose("restart")
    /\ inbox' = <<>>
    /\ paidSoFar' = LoadPaymentChannels
    /\ received' = [v \in Voucher |-> NoPayment]
    /\ free' = [a \in Account |-> FreeLimit]
    /\ loop' = Selecting
    /\ listeners' = <<>>
    /\ requests' = [r \in Request |->
                       IF r \in Active
                       THEN [requests[r] EXCEPT !.pc = "done", !.result = "not received",
                                                !.payer = NoVoucher]
                       ELSE requests[r]]
    /\ UNCHANGED <<made, stored, history>>

-------------------------------------------------------------------------------
Init ==
    /\ made = [c \in Ledger |-> 0]
    /\ inbox = <<>>
    /\ stored = [c \in Ledger |-> 0]
    /\ paidSoFar = [c \in Ledger |-> 0]
    /\ received = [v \in Voucher |-> NoPayment]
    /\ free = [a \in Account |-> FreeLimit]
    /\ loop = Selecting
    /\ listeners = <<>>
    /\ requests = [r \in Request |-> NewRequest]
    /\ credited = [c \in Ledger |-> 0]
    /\ spent = [v \in Voucher |-> 0]
    /\ served = [c \in Ledger |-> 0]
    /\ losses = {}

RequestStep(r) ==
    \/ AdmitRequest(r)
    \/ ServeRequest(r)
    \/ UseFreeQuota(r)
    \/ FindPayment(r)
    \/ Listen(r)
    \/ Wake(r)
    \/ RemoveListener(r)

LoopStep ==
    \/ TakeVoucher
    \/ CreditVoucher
    \/ \E r \in Request : Notify(r)
    \/ \E r \in Request : NotifyClosed(r)
    \/ AllNotified

Next ==
    \/ \E r \in Request : SendRequest(r)
    \/ \E r \in Request : RetryRequest(r)
    \/ \E c \in Ledger : ReceiveVoucher(c)
    \/ \E r \in Request : RequestStep(r)
    \/ \E r \in Request : TimeOut(r)
    \/ LoopStep
    \/ ForgetPayment
    \/ ForgetAccount
    \/ ForgetChannel
    \/ Restart

Spec == Init /\ [][Next]_vars

\* promises and timers go on, and vouchers arrive
Fairness ==
    /\ \A r \in Request : WF_vars(RequestStep(r)) /\ WF_vars(TimeOut(r))
    /\ \A c \in Ledger : WF_vars(ReceiveVoucher(c))
    /\ WF_vars(LoopStep)

FairSpec == Spec /\ Fairness

-------------------------------------------------------------------------------
\* Types; the listeners are those of the requests that wait, one for each, and the
\* Nitro node holds no more for a channel than its vouchers say.
TypeOK ==
    /\ made \in [Ledger -> Nat]
    /\ ToSet(inbox) \subseteq Voucher
    /\ \A c \in Ledger : stored[c] <= made[c]
    /\ paidSoFar \in [Ledger -> Nat \cup {NoPayment}]
    /\ received \in [Voucher -> Int \cup {NoPayment}]
    /\ free \in [Account -> 0..FreeLimit]
    /\ loop.pc \in {"select", "credit", "notify", "ended"}
    /\ IsInjective(listeners)
    /\ ToSet(listeners) = {r \in Request : requests[r].pc \in {"wait", "woken", "closing"}}
    /\ losses \subseteq Losses

\* What the payer of a channel has signed for, of what has arrived.
Signed(c) == AmountOf(<<c, stored[c]>>)

\* What the requests on a channel have been let through for is covered by what
\* the payer has paid on it, whatever the caches lose of it and across restarts.
ServedIsPaid == "channel" \notin losses => \A c \in Ledger : served[c] <= Signed(c)

\* The credits of a channel never exceed the amount its payer has signed.
CreditedIsPaid == "channel" \notin losses => \A c \in Ledger : credited[c] <= Signed(c)

\* Neither the requests let through nor the credits on a channel come to more than
\* its payer has signed for (receivedPayments and paidSoFarOnChannel).
PaidInFull == ServedIsPaid /\ CreditedIsPaid

\* A voucher pays for one selection, however often requests name it.
SpentOnce == \A v \in Voucher : spent[v] <= 1

\* No wake-up is lost: each waiting request has a listener, and when its payment is
\* there the loop is still to come to it, wherever listeners were added and removed.
NoLostWakeup ==
    /\ TypeOK
    /\ loop.pc # "ended" => \A r \in Request :
           requests[r].pc = "wait" /\ PaymentOf(r) # NoPayment =>
               loop.pc = "notify" /\ r \in ToSet(loop.todo)

\* The loop waits for no listener for ever: every voucher that the server's node
\* has got is credited, unless the loop has ended or the server restarts.
VouchersAreCredited ==
    \A v \in Voucher :
        v \in ToSet(inbox) ~> \/ received[v] # NoPayment \/ spent[v] > 0
                              \/ loop.pc = "ended" \/ losses # {}

===============================================================================
