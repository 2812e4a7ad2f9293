------------------------------ MODULE ScheduleMC ------------------------------
EXTENDS Schedule
CONSTANTS v1, v2, c1, c2, none

Plain(codes, after) ==
    [codes |-> codes, after |-> after, single |-> FALSE, limited |-> FALSE,
     unique |-> FALSE, transfersOnly |-> FALSE, absolute |-> FALSE,
     regular |-> FALSE, immediate |-> FALSE, first |-> 0, interval |-> 0]

Regular(p, first, interval) ==
    [p EXCEPT !.regular = TRUE, !.first = first, !.interval = interval]

\* A voucher with an absolute expiry that is used once, one with an immediate refund,
\* two with a schedule, and requests that are turned away.
Asking ==
    {[Plain(c1, 9) EXCEPT !.absolute = TRUE, !.single = TRUE],
     [Plain(c2, 1) EXCEPT !.regular = TRUE, !.immediate = TRUE],
     Regular(Plain(c1, 2), 2, 1),
     Regular(Plain(c2, 3), 2, 3),
     Regular(Plain(c2, 3), 2, 0),
     Plain(c1, 0)}

\* nextRegularRefundAnchor as refund.go has it, a loop.
Loop(first, last, interval, at) ==
    LET step[anchor \in Int] == IF anchor <= at THEN step[anchor + interval] ELSE anchor
    IN  step[IF last > 0 THEN last ELSE first] - interval

ASSUME AnchorIsTheLoop ==
    \A first \in 1 .. 7, last \in 0 .. 7, interval \in 1 .. 4, at \in 0 .. 12 :
        nextRegularRefundAnchor(first, last, interval, at) = Loop(first, last, interval, at)
=============================================================================
