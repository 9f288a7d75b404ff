------------------------------ MODULE ClaimAlerts ------------------------------
(***************************************************************************)
(* The claim bot's tracked items, their file, the commands that change     *)
(* them, and the claim handler that notifies chats (packages/claim/src:     *)
(* store.ts, bot.ts).  An item is a token or an X handle, compared without *)
(* regard to case: the members of Token and Handle stand for different     *)
(* ones.  Commands are handled one after the other, claim handlers as they *)
(* come; fetchTokenInfo() answers at any time, with nothing if it fails.   *)
(***************************************************************************)
EXTENDS Naturals, FiniteSets

CONSTANTS Chat, Token, Handle,
          MaxItems,      \* bound: items added
          MaxClaims,     \* bound: claims handled
          MaxRestarts,   \* bound: restarts
          Torn, None

VARIABLES tracked,     \* the items, by id
          idCounter,
          file,        \* what data/tracked.json holds
          adding,      \* the /add of a token that awaits its lookup, or None
          notifier,     \* the claim handlers
          notices,     \* history: messages asked for, by claim and chat
          since,       \* history: who could expect one, by claim
          restarts

storeVars == <<tracked, idCounter, file, adding>>
vars == <<storeVars, notifier, notices, since, restarts>>

Value == Token \cup Handle
Claim == 1..MaxClaims
Item == [id : 1..MaxItems, chat : Chat, value : Value]

Unused == [at |-> "unused", mint |-> None, handles |-> {}, items |-> {}, notified |-> {}]
Unknown == [creator |-> None, missed |-> FALSE, always |-> {}, ever |-> {}]

Init == /\ tracked = {} /\ idCounter = 0 /\ file = {} /\ adding = None
        /\ notifier = [n \in Claim |-> Unused]
        /\ notices = [n \in Claim |-> [c \in Chat |-> 0]]
        /\ since = [n \in Claim |-> Unknown]
        /\ restarts = 0

------------------------------------------------------------------------------
(* Store *)

IsAlreadyTracked(chat, value) == \E i \in tracked : i.chat = chat /\ i.value = value
Matching(value) == {i \in tracked : i.value = value}
Handles == {i.value : i \in tracked} \cap Handle

\* The items a claim on `mint`, a token of `creator`, is of interest to.
Interested(items, mint, creator) == {i \in items : i.value \in {mint, creator}}

Ended == {"unused", "done", "cut"}

\* What the handlers under way may expect of the items after a change.
Since(items) ==
    since' = [n \in Claim |->
        IF notifier[n].at \in Ended THEN since[n]
        ELSE LET now == Interested(items, notifier[n].mint, since[n].creator)
             IN [since[n] EXCEPT !.always = @ \cap now, !.ever = @ \cup now]]

\* A failed save is logged: the file keeps its old contents or part of the new.
Saved == file' \in {tracked', file, Torn}

AddTrackedItem(chat, value) ==
    /\ idCounter < MaxItems /\ idCounter' = idCounter + 1
    /\ tracked' = tracked \cup {[id |-> idCounter', chat |-> chat, value |-> value]}
    /\ Saved
    /\ Since(tracked')

------------------------------------------------------------------------------
(* Commands *)

\* /add @handle, handled at once.
AddHandle(chat, handle) ==
    /\ adding = None /\ ~IsAlreadyTracked(chat, handle)
    /\ AddTrackedItem(chat, handle)
    /\ UNCHANGED <<adding, notifier, notices, restarts>>

\* /add of a token, up to its lookup; then, whatever the lookup answers.
AskToken(chat, token) ==
    /\ adding = None /\ ~IsAlreadyTracked(chat, token)
    /\ adding' = [chat |-> chat, value |-> token]
    /\ UNCHANGED <<tracked, idCounter, file, notifier, notices, since, restarts>>
AddToken == /\ adding # None
            /\ AddTrackedItem(adding.chat, adding.value)
            /\ adding' = None
            /\ UNCHANGED <<notifier, notices, restarts>>

\* removeTrackedByValue(): the first item of the value.  A handle is stored
\* without its @, so `/remove @handle` finds nothing; `/remove handle` does.
Remove(chat, value) ==
    /\ adding = None
    /\ \E i \in Matching(value) :
           /\ i.chat = chat /\ \A j \in Matching(value) : j.chat = chat => i.id <= j.id
           /\ tracked' = tracked \ {i}
    /\ Saved
    /\ Since(tracked')
    /\ UNCHANGED <<idCounter, adding, notifier, notices, restarts>>

------------------------------------------------------------------------------
(* The claim handler *)

\* Up to the first await: the items that track the token, the handles anyone
\* tracks, and a lookup if there are any.  `creator` is the token's (external).
Arrive(n, mint, creator) ==
    /\ notifier[n].at = "unused" /\ \A k \in Claim : k < n => notifier[k].at # "unused"
    /\ notifier' = [notifier EXCEPT ![n] =
           [Unused EXCEPT !.mint = mint, !.items = Matching(mint), !.handles = Handles,
                          !.at = IF Handles # {} THEN "creator"
                                 ELSE IF Matching(mint) # {} THEN "info" ELSE "done"]]
    /\ LET now == Interested(tracked, mint, creator)
       IN since' = [since EXCEPT ![n] = [Unknown EXCEPT !.creator = creator,
                                                       !.always = now, !.ever = now]]
    /\ UNCHANGED <<storeVars, notices, restarts>>

\* The first lookup answers: the items that track the creator's handle now, if
\* anyone did at the start; none if it failed.
CreatorKnown(n, found) ==
    /\ notifier[n].at = "creator"
    /\ LET creator == since[n].creator
           items == notifier[n].items \cup (IF found /\ creator \in notifier[n].handles
                                           THEN Matching(creator) ELSE {})
       IN notifier' = [notifier EXCEPT ![n].items = items,
                                     ![n].at = IF items # {} THEN "info" ELSE "done"]
    /\ since' = [since EXCEPT ![n].missed = ~found]
    /\ UNCHANGED <<storeVars, notices, restarts>>

\* The second lookup and the look at the creator's followers, whatever they answer.
InfoFetched(n) == /\ notifier[n].at = "info"
                  /\ notifier' = [notifier EXCEPT ![n].at = "notifying"]
                  /\ UNCHANGED <<storeVars, notices, since, restarts>>

\* The next item, once the message before it was sent or refused: its chat gets
\* one unless it had one, and the last item ends the handler.
Notify_EveryItem(n) ==
    /\ notifier[n].at = "notifying"
    /\ \E i \in notifier[n].items :
           /\ notifier' = [notifier EXCEPT ![n].items = @ \ {i}, ![n].notified = @ \cup {i.chat},
                                         ![n].at = IF notifier[n].items = {i} THEN "done" ELSE @]
           /\ notices' = [notices EXCEPT ![n][i.chat] = @ + 1]
    /\ UNCHANGED <<storeVars, since, restarts>>
Notify(n) ==
    /\ notifier[n].at = "notifying"
    /\ \E i \in notifier[n].items :
           /\ notifier' = [notifier EXCEPT ![n].items = @ \ {i}, ![n].notified = @ \cup {i.chat},
                                         ![n].at = IF notifier[n].items = {i} THEN "done" ELSE @]
           /\ notices' = IF i.chat \in notifier[n].notified THEN notices
                         ELSE [notices EXCEPT ![n][i.chat] = @ + 1]
    /\ UNCHANGED <<storeVars, since, restarts>>

\* The process ends and starts again: loadTracked().  Ids go on from the time.
Restart == /\ restarts < MaxRestarts /\ restarts' = restarts + 1
           /\ tracked' = IF file = Torn THEN {} ELSE file
           /\ adding' = None
           /\ notifier' = [n \in Claim |-> IF notifier[n].at \in Ended THEN notifier[n]
                                          ELSE [notifier[n] EXCEPT !.at = "cut"]]
           /\ UNCHANGED <<idCounter, file, notices, since>>

Next == \/ \E c \in Chat : \/ \E h \in Handle : AddHandle(c, h)
                           \/ \E t \in Token : AskToken(c, t)
                           \/ \E v \in Value : Remove(c, v)
        \/ AddToken
        \/ \E n \in Claim :
               \/ \E t \in Token, h \in Handle \cup {None} : Arrive(n, t, h)
               \/ \E found \in BOOLEAN : CreatorKnown(n, found)
               \/ InfoFetched(n) \/ Notify(n)
        \/ Restart

Spec == Init /\ [][Next]_vars

------------------------------------------------------------------------------
\* A handler that ran to its end notified the chat of every item that tracked the
\* token all the while, and of every one that tracked its creator if the lookup
\* found the creator; and it notified no chat twice, though one may track the
\* token and its creator, and none that tracked neither since the claim came.
TrackersHear ==
    \A n \in Claim :
        /\ notifier[n].at = "done" =>
               \A i \in since[n].always : \/ notices[n][i.chat] > 0
                                         \/ (since[n].missed /\ i.value \in Handle)
        /\ \A c \in Chat : notices[n][c] > 0 => /\ notices[n][c] = 1
                                               /\ \E i \in since[n].ever : i.chat = c

=============================================================================
