------------------------------ MODULE RuleBook ------------------------------
(***************************************************************************)
(* What Dataset Memory promises its users (agent/feedback_store.py): every *)
(* user works on a rule book of their own.  It starts as a copy of the     *)
(* rules saved before users existed; from then on only the user changes    *)
(* it, one page per dataset fingerprint, and nobody else's book with it.   *)
(* A user whose data an administrator wipes starts over from that copy.    *)
(* The only other event is the loss of the whole shelf.                    *)
(*                                                                         *)
(* book[u][f]  the rules user u has for fingerprint f                      *)
(* base[f]     the rules saved before users existed                        *)
(***************************************************************************)
EXTENDS Naturals, Sequences

CONSTANTS Users, Fps, Texts, Categories

VARIABLES book, base

bookVars == <<book, base>>

Rule  == [rule : Texts, category : Categories]
Pages == [Fps -> Seq(Rule)]
Blank == [f \in Fps |-> <<>>]

BookInit ==
    /\ base \in Pages
    /\ book = [u \in Users |-> base]

Rewrite(u, f, page) ==
    /\ book' = [book EXCEPT ![u][f] = page]
    /\ UNCHANGED base

\* A text that is on the page already is not written twice.
Write(u, f, r) ==
    /\ r.rule \notin {book[u][f][i].rule : i \in DOMAIN book[u][f]}
    /\ Rewrite(u, f, Append(book[u][f], r))

Strike(u, f, i) ==
    LET p == book[u][f]
    IN  Rewrite(u, f, SubSeq(p, 1, i - 1) \o SubSeq(p, i + 1, Len(p)))

Correct(u, f, i, r) == Rewrite(u, f, [book[u][f] EXCEPT ![i] = r])

Exchange(u, f, i, j) ==
    Rewrite(u, f, [book[u][f] EXCEPT ![i] = book[u][f][j], ![j] = book[u][f][i]])

TearOut(u, f) == Rewrite(u, f, <<>>)

StartOver(u) ==
    /\ book' = [book EXCEPT ![u] = base]
    /\ UNCHANGED base

LoseAll ==
    /\ book' = [u \in Users |-> Blank]
    /\ base' = Blank

BookNext ==
    \/ \E u \in Users, f \in Fps :
          \/ TearOut(u, f)
          \/ \E r \in Rule : Write(u, f, r)
          \/ \E i \in DOMAIN book[u][f] :
                \/ Strike(u, f, i)
                \/ \E r \in Rule : Correct(u, f, i, r)
                \/ \E j \in DOMAIN book[u][f] : Exchange(u, f, i, j)
    \/ \E u \in Users : StartOver(u)
    \/ LoseAll

BookSpec == BookInit /\ [][BookNext]_bookVars
=============================================================================
