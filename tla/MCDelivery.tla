----------------------------- MODULE MCDelivery -----------------------------
(***************************************************************************)
(* TLC instances of Delivery.                                              *)
(***************************************************************************)
EXTENDS Delivery

CONSTANTS t1, w1, w2, f1, r1, r2

MCPlatform ==
    [c \in Chats |-> IF c = t1 THEN "telegram"
                     ELSE IF c \in {w1, w2} THEN "wechat" ELSE "feishu"]

\* Both answers may be for the Telegram chat, and each for a WeChat chat of its own.
MCChatsOf == [r \in Requests |-> IF r = r1 THEN {t1, w1, f1} ELSE {t1, w2}]

\* The end of a sentence, an unfinished one, and a single character.
MCPieces == {[n |-> 2, stop |-> TRUE], [n |-> 2, stop |-> FALSE], [n |-> 1, stop |-> FALSE]}
=============================================================================
