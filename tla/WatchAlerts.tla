------------------------------ MODULE WatchAlerts ------------------------------
(***************************************************************************)
(* The monitor bot's watches, their file, /watch and /unwatch, and the     *)
(* handlers that notify chats of fee claims and creator changes            *)
(* (packages/monitor/src: store.ts, bot.ts).  Wallets are compared without *)
(* regard to case: the members of Wallet stand for different ones.  The    *)
(* commands await nothing before they change the watches.                  *)
(***************************************************************************)
EXTENDS Naturals, FiniteSets

CONSTANTS Chat, Wallet,
          LeadingNumber,  \* the number a wallet's text begins with, 0 for none: see Unwatch
          MaxWatches,     \* bound: watches added
          MaxEvents,      \* bound: claims and creator changes handled
          MaxRestarts,    \* bound: restarts
          Torn

VARIABLES watches, idCounter,
          file,        \* what data/watches.json holds
          alerter,     \* the handlers: what happened, and the watches left to notify
          alerts,      \* history: messages asked for, by event and chat
          interested,  \* history: watches of interest, by event
          restarts

storeVars == <<watches, idCounter, file>>
vars == <<storeVars, alerter, alerts, interested, restarts>>

Event == 1..MaxEvents
Unused == [wallets |-> {}, left |-> {}, at |-> "unused"]

Init == /\ watches = {} /\ idCounter = 0 /\ file = {}
        /\ alerter = [n \in Event |-> Unused]
        /\ alerts = [n \in Event |-> [c \in Chat |-> 0]]
        /\ interested = [n \in Event |-> {}]
        /\ restarts = 0

Of(chat) == {w \in watches : w.chat = chat}
FindMatching(wallets) == {w \in watches : w.wallet \in wallets}

\* A failed save is logged: the file keeps its old contents or part of the new.
Saved == file' \in {watches', file, Torn}

------------------------------------------------------------------------------
(* Commands *)

\* handleWatch(): a wallet that the chat watches already is refused.
Watch(chat, wallet) ==
    /\ ~\E w \in Of(chat) : w.wallet = wallet
    /\ idCounter < MaxWatches /\ idCounter' = idCounter + 1
    /\ watches' = watches \cup {[id |-> idCounter', chat |-> chat, wallet |-> wallet]}
    /\ Saved
    /\ UNCHANGED <<alerter, alerts, interested, restarts>>

\* The chat's watch with this place in its list, which shows them by age.
Listed(chat, place) == {w \in Of(chat) : Cardinality({v \in Of(chat) : v.id <= w.id}) = place}

\* handleUnwatch(): parseInt() reads the digits its argument begins with, so a
\* wallet that begins with a digit may name another watch by its place.
Unwatched(chat, place, wallet) ==
    IF Listed(chat, place) # {} THEN Listed(chat, place)
    ELSE {w \in Of(chat) : w.wallet = wallet}
Remove(gone) == /\ gone # {}
                /\ watches' = watches \ gone
                /\ Saved
                /\ interested' = [n \in Event |-> IF alerter[n].at = "notifying"
                                             THEN interested[n] \ gone ELSE interested[n]]
                /\ UNCHANGED <<idCounter, alerter, alerts, restarts>>
UnwatchWallet(chat, wallet) == Remove(Unwatched(chat, LeadingNumber[wallet], wallet))
UnwatchNumber(chat, place) == Remove(Listed(chat, place))

------------------------------------------------------------------------------
(* Notices *)

\* createClaimHandler() finds the watches of the claimer, and
\* createCreatorChangeHandler() those of the signer and of the new creator, once
\* each; both end at once if there are none.
HappenWith(n, wallets, found) ==
    /\ alerter[n].at = "unused" /\ \A k \in Event : k < n => alerter[k].at # "unused"
    /\ alerter' = [alerter EXCEPT ![n] = [wallets |-> wallets, left |-> found,
                                          at |-> IF found = {} THEN "done" ELSE "notifying"]]
    /\ interested' = [interested EXCEPT ![n] = FindMatching(wallets)]
    /\ UNCHANGED <<storeVars, alerts, restarts>>
Claim(n, wallet) == HappenWith(n, {wallet}, FindMatching({wallet}))
CreatorChange_EitherWallet(n, signer, creator) ==
    HappenWith(n, {signer, creator}, IF FindMatching({signer}) = {} THEN FindMatching({creator})
                                     ELSE FindMatching({signer}))
CreatorChange(n, signer, creator) ==
    HappenWith(n, {signer, creator}, FindMatching({signer, creator}))

\* Another watch, once the message before it was sent or refused.
Notify(n) ==
    /\ alerter[n].at = "notifying"
    /\ \E w \in alerter[n].left :
           /\ alerter' = [alerter EXCEPT ![n].left = @ \ {w},
                                         ![n].at = IF alerter[n].left = {w} THEN "done" ELSE @]
           /\ alerts' = [alerts EXCEPT ![n][w.chat] = @ + 1]
    /\ UNCHANGED <<storeVars, interested, restarts>>

\* The process ends and starts again: loadWatches().  Ids go on from the time.
Restart == /\ restarts < MaxRestarts /\ restarts' = restarts + 1
           /\ watches' = IF file = Torn THEN {} ELSE file
           /\ alerter' = [n \in Event |-> IF alerter[n].at = "notifying"
                                          THEN [alerter[n] EXCEPT !.at = "cut"] ELSE alerter[n]]
           /\ UNCHANGED <<idCounter, file, alerts, interested>>

Next == \/ \E c \in Chat : \/ \E w \in Wallet : Watch(c, w) \/ UnwatchWallet(c, w)
                           \/ \E k \in 1..MaxWatches : UnwatchNumber(c, k)
        \/ \E n \in Event : \/ \E w \in Wallet : Claim(n, w)
                            \/ \E v, w \in Wallet : CreatorChange(n, v, w)
                            \/ Notify(n)
        \/ Restart

Spec == Init /\ [][Next]_vars

------------------------------------------------------------------------------
\* A chat hears of a claim once and of a creator change once for each of the two
\* wallets it watches, whatever the commands and restarts before made of the list;
\* one that watches a wallet of the event all the while hears of it.
WatchersHear ==
    \A n \in Event :
        /\ \A c \in Chat : alerts[n][c] <= Cardinality(alerter[n].wallets)
        /\ alerter[n].at = "done" => \A w \in interested[n] : alerts[n][w.chat] > 0

=============================================================================
