-------------------------- MODULE MCSpeechPlayback --------------------------
(* The instance of SpeechPlayback for TLC.  Urls are only told apart, so it *)
(* is enough to look at the behaviours that use new ones in this order.    *)
EXTENDS SpeechPlayback

CONSTANTS s1, s2, s3

Place(s) == CASE s = s1 -> 1 [] s = s2 -> 2 [] s = s3 -> 3

NewInOrder ==
  \A i \in DOMAIN accepted : \A k \in 1 .. Place(accepted[i]) - 1 :
    \E j \in 1 .. i - 1 : Place(accepted[j]) = k
=============================================================================
