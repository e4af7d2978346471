---------------------------- MODULE StockAccount ----------------------------
(***************************************************************************)
(* What the stock services promise for one roll of fabric, with nothing    *)
(* said of requests, snapshots or columns: an account that holds a         *)
(* quantity, part of which is promised to order lines.  Every operation    *)
(* takes effect in one step, on the account as it is at that step.         *)
(*                                                                         *)
(* RollStock implements this specification for the rolls whose requests do *)
(* not overlap.                                                            *)
(***************************************************************************)
EXTENDS Integers

CONSTANTS
  Rolls,      \* barcodes
  Quantities  \* the quantities an operation can name, of either sign

VARIABLES
  entered,   \* the rolls that have been received
  onHand,    \* what is left of each roll
  promised,  \* the part of it that has been given to order lines
  sold       \* what has been cut from it for customers

avars == <<entered, onHand, promised, sold>>

Available(r) == onHand[r] - promised[r]

AInit ==
  /\ entered = {}
  /\ onHand = [r \in Rolls |-> 0]
  /\ promised = [r \in Rolls |-> 0]
  /\ sold = [r \in Rolls |-> 0]

(* A roll enters once, with its full length. *)
Receive(r, n) ==
  /\ r \notin entered
  /\ entered' = entered \cup {r}
  /\ onHand' = [onHand EXCEPT ![r] = n]
  /\ UNCHANGED <<promised, sold>>

(* A sale takes only what is not promised to somebody else.  Less than     *)
(* nothing may be promised, and a sale may then be longer than the roll:   *)
(* it leaves nothing.                                                      *)
Sell(r, n) ==
  /\ r \in entered
  /\ n > 0 /\ n <= Available(r)
  /\ onHand' = [onHand EXCEPT ![r] = IF n < @ THEN @ - n ELSE 0]
  /\ sold' = [sold EXCEPT ![r] = @ + n]
  /\ UNCHANGED <<entered, promised>>

(* Scrapping and recounting record what happened to the fabric, promised   *)
(* or not.  Scrapping less than nothing puts fabric back.                  *)
Scrap(r, n) ==
  /\ r \in entered
  /\ n <= onHand[r]
  /\ onHand' = [onHand EXCEPT ![r] = @ - n]
  /\ UNCHANGED <<entered, promised, sold>>

Recount(r, n) ==
  /\ r \in entered
  /\ n >= 0
  /\ onHand' = [onHand EXCEPT ![r] = n]
  /\ UNCHANGED <<entered, promised, sold>>

(* Only what is available can be promised; a negative promise takes an     *)
(* earlier one back.                                                       *)
Promise(r, n) ==
  /\ r \in entered
  /\ n <= Available(r)
  /\ promised' = [promised EXCEPT ![r] = @ + n]
  /\ UNCHANGED <<entered, onHand, sold>>

ANext ==
  \E r \in Rolls, n \in Quantities :
    Receive(r, n) \/ Sell(r, n) \/ Scrap(r, n) \/ Recount(r, n) \/ Promise(r, n)

ASpec == AInit /\ [][ANext]_avars
=============================================================================
