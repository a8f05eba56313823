------------------------------- MODULE Gateway -------------------------------
(***************************************************************************)
(* The front of the DNS gateway with its instrumentation: completing a     *)
(* query sends its reply and adds its metric to the instrumenter.          *)
(***************************************************************************)
EXTENDS GatewayIntake, UdpInstrumenter

\* Every query has a metric.
ASSUME GatewayAssumption == Queries \subseteq Metrics

vars == << nvars, ivars >>

Init == IntakeInit /\ InstrumenterInit

\* complete_query stops the query's metric and adds it.
Instrumented ==
    IF completed' = completed THEN UNCHANGED ivars
    ELSE \E q \in completed' \ completed : do_add_metric(q)

Instrument == running /\ InstrumenterStep /\ UNCHANGED nvars

Next == (IntakeNext /\ Instrumented) \/ Instrument

\* Handlers run while the process does: asio runs every handler that is ready.
Fairness ==
    /\ WF_vars(handle_datagram_received /\ Instrumented)
    /\ \A r \in Receivers : WF_vars(process_query(r) /\ Instrumented)
    /\ WF_vars(running /\ RunAddMetric /\ UNCHANGED nvars)
    /\ WF_vars(running /\ TimerExpires /\ UNCHANGED nvars)
    /\ WF_vars(running /\ handle_nagle_timeout /\ UNCHANGED nvars)

Spec == Init /\ [][Next]_vars /\ Fairness

\* Every query that the load balancer refuses or a proxy completes is reported to
\* the instrumentation server, in one datagram or another, unless the process
\* stops.
Reported == \A q \in Queries :
    (q \in completed) ~> (~running \/ \E i \in DOMAIN delivered : delivered[i] = q)

\* While the process runs nothing waits for ever: every datagram is looked at and
\* every completed query is reported.
AllHandled == DatagramsRead /\ Reported
=============================================================================
