------------------------------ MODULE BillBook ------------------------------
(***************************************************************************)
(* What retail billing promises, with no database, requests or crashes:    *)
(* a cart is quoted once, at what it costs then, and a book of bills grows *)
(* by one bill at a time.  A checkout token is billed at most once, at its *)
(* quote, and the numbers of a month are handed out in order, 1, 2, 3,     *)
(* ..., never above the last number of the format.  Checkout implements    *)
(* this specification.                                                     *)
(***************************************************************************)
EXTENDS Integers, Sequences

CONSTANTS Tokens, Months, Prices, MaxSequence

VARIABLES quotes,  \* the amount each token was quoted, 0 for none yet
          book,    \* the bills, in the order they were issued
          last     \* last number handed out in each month, 0 for none

vars == <<quotes, book, last>>

Billed(t) == \E i \in 1..Len(book) : book[i].token = t

Init ==
  /\ quotes = [t \in Tokens |-> 0]
  /\ book = << >>
  /\ last = [m \in Months |-> 0]

Quote(t, amount) ==
  /\ quotes[t] = 0
  /\ amount > 0
  /\ quotes' = [quotes EXCEPT ![t] = amount]
  /\ UNCHANGED <<book, last>>

Issue(t, m) ==
  /\ quotes[t] # 0
  /\ ~ Billed(t)
  /\ last[m] < MaxSequence
  /\ last' = [last EXCEPT ![m] = @ + 1]
  /\ book' = Append(book, [token |-> t, month |-> m,
                           no |-> last[m] + 1, total |-> quotes[t]])
  /\ UNCHANGED quotes

Next ==
  \/ \E t \in Tokens, amount \in Prices : Quote(t, amount)
  \/ \E t \in Tokens, m \in Months : Issue(t, m)

Spec == Init /\ [][Next]_vars
=============================================================================
