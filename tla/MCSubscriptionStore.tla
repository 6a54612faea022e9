------------------------ MODULE MCSubscriptionStore ------------------------
(* Instances of SubscriptionStore for TLC. *)
EXTENDS SubscriptionStore, TLC

CONSTANTS s1, s2, u1, u2, t1, t2

TwoIds == {s1, s2}
TwoUrls == {u1, u2}
TwoTasks == {t1, t2}

=============================================================================
