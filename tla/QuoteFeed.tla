------------------------------ MODULE QuoteFeed ------------------------------
(***************************************************************************)
(* What the quote server promises to its callers, without threads, locks   *)
(* and channels: a client that has been added is sent whole passes over    *)
(* its tickers, each pass taken from the book in one step and never while  *)
(* the book is being rewritten, until it is removed; from then on it is    *)
(* sent nothing.  An id is given out once.                                 *)
(***************************************************************************)
EXTENDS Naturals, Sequences

CONSTANTS
    Id,         \* identities of clients
    Ticker,     \* tickers the book has a quote for
    List,       \* the lists of words that clients ask for
    Value,      \* contents of a quote
    Missing     \* what a pass holds for a word that is no ticker

VARIABLES
    book,       \* the quotes
    rewriting,  \* the book is between two consistent states
    wanted,     \* what each client asked for
    state,      \* of each client: "new", "active", "leaving" or "gone"
    pass        \* the last pass that each client was sent, if it is complete

feed == <<book, rewriting, wanted, state, pass>>

FeedInit ==
    /\ book \in [Ticker -> Value]
    /\ rewriting = FALSE
    /\ wanted = [c \in Id |-> <<>>]
    /\ state = [c \in Id |-> "new"]
    /\ pass = [c \in Id |-> <<>>]

\* The pass that a client with the list w gets from the present book.
PassOf(w) ==
    [i \in 1 .. Len(w) |-> IF w[i] \in Ticker THEN book[w[i]] ELSE Missing]

Rewrite ==
    /\ ~rewriting
    /\ rewriting' = TRUE
    /\ UNCHANGED <<book, wanted, state, pass>>

Change(t) ==
    /\ rewriting
    /\ \E v \in Value : book' = [book EXCEPT ![t] = v]
    /\ UNCHANGED <<rewriting, wanted, state, pass>>

Settle ==
    /\ rewriting
    /\ rewriting' = FALSE
    /\ UNCHANGED <<book, wanted, state, pass>>

Add(c, w) ==
    /\ state[c] = "new"
    /\ state' = [state EXCEPT ![c] = "active"]
    /\ wanted' = [wanted EXCEPT ![c] = w]
    /\ UNCHANGED <<book, rewriting, pass>>

\* The client is about to be sent a pass; the last one no longer counts.
Begin(c) ==
    /\ state[c] \in {"active", "leaving"}
    /\ pass' = [pass EXCEPT ![c] = <<>>]
    /\ UNCHANGED <<book, rewriting, wanted, state>>

\* The client is sent a pass, all of it at once.
Publish(c) ==
    /\ state[c] \in {"active", "leaving"}
    /\ ~rewriting
    /\ pass' = [pass EXCEPT ![c] = PassOf(wanted[c])]
    /\ UNCHANGED <<book, rewriting, wanted, state>>

\* The removal of a client begins: passes it is owed may still be sent.
Leave(c) ==
    /\ state[c] = "active"
    /\ \A d \in Id : state[d] # "leaving"
    /\ state' = [state EXCEPT ![c] = "leaving"]
    /\ UNCHANGED <<book, rewriting, wanted, pass>>

\* The removal is complete.
Gone(c) ==
    /\ state[c] = "leaving"
    /\ state' = [state EXCEPT ![c] = "gone"]
    /\ UNCHANGED <<book, rewriting, wanted, pass>>

FeedNext ==
    \/ Rewrite
    \/ \E t \in Ticker : Change(t)
    \/ Settle
    \/ \E c \in Id :
        \/ \E w \in List : Add(c, w)
        \/ Begin(c)
        \/ Publish(c)
        \/ Leave(c)
        \/ Gone(c)

FeedSpec == FeedInit /\ [][FeedNext]_feed
=============================================================================
