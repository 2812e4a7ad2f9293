-------------------------- MODULE PaymentSemaphoreMC --------------------------
(* Two requests, one of them impatient, the worker and a few releases.     *)
EXTENDS PaymentSemaphore
CONSTANTS w1, w2, adm, worker, r1, r2, r3

OneWithdrawal  == {w1, adm}
TwoAndAdmin == {w1, w2, adm}
TwoWithdrawals == {w1, w2}
NoImpatient    == {}
OneImpatient   == {adm}
TwoReleasers   == {r1, r2}
ThreeReleasers == {r1, r2, r3}
=============================================================================
