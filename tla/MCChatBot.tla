------------------------------- MODULE MCChatBot -------------------------------
(* A chat of a moderator and a viewer: the links of one message each, of    *)
(* which some are std, one is not and one stands behind another.            *)
EXTENDS ChatBot

CONSTANTS moderator, viewer, m1, m2, m3, a, b, c, w1, w2

Std(id) == [id |-> id, mode |-> "osu"]
Mania(id) == [id |-> id, mode |-> "other"]

MCNick == [m \in Messages |-> IF m = m2 THEN viewer ELSE moderator]
MCRole == [m \in Messages |-> IF m = m2 THEN 1 ELSE 3]
MCContent == [m \in Messages |-> CASE m = m1 -> <<Std(a)>>
                                   [] m = m2 -> <<Std(b)>>
                                   [] OTHER -> <<Mania(c), Std(a)>>]
================================================================================
