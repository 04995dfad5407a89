----------------------------- MODULE AccountLink -----------------------------
(***************************************************************************)
(* What linking a chat to an account promises, whatever requests overlap:  *)
(* a code belongs to one account, it is spent by the one binding it makes  *)
(* or by being withdrawn, and a chat speaks for at most one account.       *)
(* BotLink implements it.                                                  *)
(***************************************************************************)
CONSTANTS Users, Exts, Codes, None

VARIABLES
    chat,   \* the chat of each account, or None
    owner,  \* the account each code was made for, or None
    open    \* codes that can still bind

vars == <<chat, owner, open>>

Init ==
    /\ chat = [u \in Users |-> None]
    /\ owner = [c \in Codes |-> None]
    /\ open = {}

Issue(u, c) ==
    /\ owner[c] = None
    /\ owner' = [owner EXCEPT ![c] = u]
    /\ open' = open \cup {c}
    /\ UNCHANGED chat

Withdraw(u) ==
    /\ \E cs \in SUBSET {c \in open : owner[c] = u} : open' = open \ cs
    /\ UNCHANGED <<chat, owner>>

Bind(c, e) ==
    /\ c \in open
    /\ \A u \in Users \ {owner[c]} : chat[u] # e
    /\ chat' = [chat EXCEPT ![owner[c]] = e]
    /\ open' = open \ {c}
    /\ UNCHANGED owner

Next == \/ \E u \in Users, c \in Codes : Issue(u, c)
        \/ \E u \in Users : Withdraw(u)
        \/ \E c \in Codes, e \in Exts : Bind(c, e)

Spec == Init /\ [][Next]_vars
=============================================================================
