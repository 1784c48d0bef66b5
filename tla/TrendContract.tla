---------------------------- MODULE TrendContract ----------------------------
(***************************************************************************)
(* What the processes that share the trend baselines are promised          *)
(* (internal/stats/trend_store.go): there is one list, a call changes it   *)
(* at once and at most once, and a reader has the list of one moment.  An  *)
(* unusable list is given up as a whole.  Nothing is promised any more     *)
(* once a caller took longer than the others wait for it (void).           *)
(***************************************************************************)
CONSTANTS
    Callers,
    Calls,          \* what can be asked for
    NoCall,
    Nothing,        \* the empty list
    Refuses(_, _),  \* a call that the list refuses
    Result(_, _)    \* the list after a call

VARIABLES
    list,
    view,           \* view[c]: the list that caller c has seen
    asked,          \* asked[c]: what c has asked for and has no answer to
    void            \* the promise is broken

lvars == <<list, view, asked, void>>

LInit ==
    /\ list = Nothing
    /\ view = [c \in Callers |-> Nothing] /\ asked = [c \in Callers |-> NoCall]
    /\ ~void

Ask(c) ==
    /\ asked[c] = NoCall
    /\ asked'[c] \in Calls /\ asked' = [asked EXCEPT ![c] = asked'[c]]
    /\ UNCHANGED <<list, view>>

Answer(c) == asked[c] \in Calls /\ asked' = [asked EXCEPT ![c] = NoCall]

\* The change is made to the list as it is, and its caller sees what it became.
Change(c) ==
    /\ Answer(c)
    /\ ~Refuses(asked[c], list)
    /\ list' = Result(asked[c], list)
    /\ view' = [view EXCEPT ![c] = list']

Lost == list' = Nothing

\* Refused, not saved, out of time or dead.
GiveUp(c) ==
    /\ Answer(c)
    /\ UNCHANGED list \/ Lost
    /\ UNCHANGED view

\* A reader sees the list, or that it is unusable.
Look(c) ==
    /\ \E seen \in {list, Nothing} : view' = [view EXCEPT ![c] = seen]
    /\ UNCHANGED <<list, asked>>

GiveUpList == Lost /\ UNCHANGED <<view, asked>>

LNext ==
    \/ /\ ~void /\ UNCHANGED void
       /\ \/ \E c \in Callers : Ask(c) \/ Change(c) \/ GiveUp(c) \/ Look(c)
          \/ GiveUpList
    \/ void' = TRUE

LSpec == LInit /\ [][LNext]_lvars
=============================================================================
