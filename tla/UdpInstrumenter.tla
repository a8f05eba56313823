-------------------------- MODULE UdpInstrumenter --------------------------
(***************************************************************************)
(* The instrumentation client of the DNS gateway.  Every reply adds a      *)
(* metric; metrics are collected in buf_ and sent in one datagram when the *)
(* next one does not fit, when the buffer is exactly full, or when the     *)
(* nagle timer that the first metric of a batch started runs out.  All     *)
(* handlers run in a strand.  A handler of a timer that ran out may still  *)
(* be queued when send_now cancels the timer: it then runs with success    *)
(* and flushes whatever is in the buffer by then.                          *)
(***************************************************************************)
EXTENDS Naturals, Sequences

CONSTANTS
    Metrics,        \* the metrics that will be added, each once
    SizeOf,         \* their serialised size
    MAX_BUF_SIZE    \* 65507 in the code

ASSUME InstrumenterAssumption ==
    /\ MAX_BUF_SIZE \in Nat
    /\ SizeOf \in [Metrics -> Nat \ {0}]
    /\ \A m \in Metrics : SizeOf[m] <= MAX_BUF_SIZE

VARIABLES
    inbox,      \* add_metric_ calls waiting for the strand
    buf_,       \* the metrics of the next datagram
    buf_size_,  \* their size
    timer_,     \* a wait on the nagle timer is pending
    timeouts,   \* handlers of timers that ran out, queued with success
    delivered,  \* history: the metrics sent, datagram after datagram
    added       \* history: the metrics add_metric_ took, in order

ivars == << inbox, buf_, buf_size_, timer_, timeouts, delivered, added >>

InstrumenterInit ==
    /\ inbox = << >> /\ buf_ = << >> /\ buf_size_ = 0
    /\ timer_ = FALSE /\ timeouts = 0
    /\ delivered = << >> /\ added = << >>

\* do_add_metric serialises the metric and dispatches add_metric_.
do_add_metric(m) ==
    /\ inbox' = Append(inbox, m)
    /\ UNCHANGED << buf_, buf_size_, timer_, timeouts, delivered, added >>

\* The state the functions of the strand work on.
Batch == [buf |-> buf_, size |-> buf_size_, timer |-> timer_, sent |-> delivered]
Becomes(b) == /\ buf_' = b.buf /\ buf_size_' = b.size /\ timer_' = b.timer
              /\ delivered' = b.sent

\* Cancels the timer, sends the buffer and starts a new one.
send_now(b) == [buf |-> << >>, size |-> 0, timer |-> FALSE, sent |-> b.sent \o b.buf]

start_timer(b) == [b EXCEPT !.timer = TRUE]

push_back(b, m) == [b EXCEPT !.buf = Append(@, m), !.size = @ + SizeOf[m]]

\* Variant: the first metric of a batch starts no timer.
add_metric__no_timer(m) ==
    LET b1 == IF buf_size_ + SizeOf[m] > MAX_BUF_SIZE THEN send_now(Batch) ELSE Batch
        b2 == push_back(b1, m)
    IN  Becomes(IF b2.size = MAX_BUF_SIZE THEN send_now(b2) ELSE b2)

add_metric_(m) ==
    LET b1 == IF buf_size_ + SizeOf[m] > MAX_BUF_SIZE THEN send_now(Batch) ELSE Batch
        b2 == push_back(b1, m)
        b3 == IF b2.size = MAX_BUF_SIZE THEN send_now(b2) ELSE b2
    IN  Becomes(IF b3.size = SizeOf[m] THEN start_timer(b3) ELSE b3)

RunAddMetric ==
    /\ inbox # << >>
    /\ inbox' = Tail(inbox) /\ added' = Append(added, Head(inbox))
    /\ add_metric_(Head(inbox))
    /\ UNCHANGED timeouts

\* The timer runs out and its handler is queued.
TimerExpires ==
    /\ timer_ /\ timer_' = FALSE
    /\ timeouts' = timeouts + 1
    /\ UNCHANGED << inbox, buf_, buf_size_, delivered, added >>

\* Variant: the handler takes itself for cancelled.
handle_nagle_timeout_ignored ==
    /\ timeouts > 0 /\ timeouts' = timeouts - 1
    /\ UNCHANGED << inbox, buf_, buf_size_, timer_, delivered, added >>

\* A handler that was cancelled in time runs with operation_aborted and does
\* nothing; one that was already queued finds success.
handle_nagle_timeout ==
    /\ timeouts > 0 /\ timeouts' = timeouts - 1
    /\ Becomes(send_now(Batch))
    /\ UNCHANGED << inbox, added >>

InstrumenterStep == RunAddMetric \/ TimerExpires \/ handle_nagle_timeout

-----------------------------------------------------------------------------

\* No metric is lost, sent twice or sent out of order, although send_now is
\* reached from a full buffer, a metric that does not fit and timers that were
\* cancelled too late.
Conserved == added = delivered \o buf_

\* Whatever is in the buffer is on its way: a timer is pending or a handler that
\* will flush it is queued.  (add_metric_ starts the timer only for the first
\* metric of a batch.)
Nagled == buf_ # << >> => timer_ \/ timeouts > 0

\* A datagram never exceeds the limit of UDP over IPv4.
DatagramFits == buf_size_ <= MAX_BUF_SIZE

\* However metrics, timers and timers that were cancelled too late interleave,
\* the batch in buf_ is whole, fits a datagram and will be flushed.
BatchRight == Conserved /\ Nagled /\ DatagramFits
=============================================================================
