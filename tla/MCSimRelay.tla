------------------------------ MODULE MCSimRelay ------------------------------
(* SimRelay on a small instance: the card's own slot and another one, which  *)
(* stands for every indication the handler does not accept.                  *)
EXTENDS SimRelay

CONSTANTS own, other

MCSlots == {own, other}
===============================================================================
