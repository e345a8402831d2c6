---------------------------- MODULE MCNoticeQueue ----------------------------
(* The instances of NoticeQueue that TLC checks. *)
EXTENDS NoticeQueue

CONSTANTS ann, bob, carol, post, h1, h2
=============================================================================
