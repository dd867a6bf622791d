--------------------------- MODULE MCGuideServer ---------------------------
(* The guide server, each part by itself: its snapshot, schedule and close,    *)
(* for a list that may lose or gain a channel, or name another in its place;    *)
(* and the bodies of three guides over one slot.  Which a behaviour is of is    *)
(* chosen at the start.                                                        *)
EXTENDS GuideServer, TLC

CONSTANTS
  a, b, z, p, q, r, Parts,
  Bodies, Slots, Chunks, MaxThrows \* of the guides under way

VARIABLES
  which,
  owned, body, queue, closing, throws

MCChannels == {a, b, z}
MCLineups == {<<a>>, <<a, b>>, <<a, z>>}
MCLeft == a :> {1} @@ b :> {0} @@ z :> {0}

MCBodies == {p, q, r}

Guides == INSTANCE GuideBodies WITH stop <- closing

ASSUME BodiesAssumption == Guides!BodiesAssumption

ofBodies == <<owned, body, queue, closing, throws>>
all == <<which, vars, ofBodies>>

\* The part that is not the one chosen stands at one of its beginnings.  A list has
\* b before it has z, which without b is b by another name.
AtRest ==
  /\ which = "server" => owned /\ lineup # <<a, z>>
  /\ which = "bodies" => lineup = <<a>>
MCInit == which \in Parts /\ Init /\ Guides!Init /\ AtRest

OfServer(A) == which = "server" /\ A /\ UNCHANGED <<which, ofBodies>>
OfBodies(A) == which = "bodies" /\ A /\ UNCHANGED <<which, vars>>
\* So too of a change to a list that had neither.
Named == lineup = <<a>> => lineup' # <<a, z>>
MCNext == OfServer(Next /\ Named) \/ OfBodies(Guides!Next)

\* As FairSpec and the bodies' Spec have it, of the part that is chosen.
Serving == which = "server"
MCSpec ==
  /\ MCInit /\ [][MCNext]_all
  /\ WF_vars(Serving /\ Looking) /\ WF_vars(Serving /\ Reading) /\ WF_vars(Serving /\ Poll)
  /\ SF_vars(Serving /\ PollAlone /\ ~Current)
  /\ WF_vars(Serving /\ RevalidateDue) /\ WF_vars(Serving /\ ListsAge)
  /\ WF_vars(Serving /\ Decide) /\ WF_vars(Serving /\ (TimerFires \/ Imported \/ GrabEnds))
  /\ WF_vars(Serving /\ CacheCloses)
  /\ WF_ofBodies(~Serving /\ Guides!Works)

-----------------------------------------------------------------------------
\* What a consumer is told is so: nothing changed, as GuideServer has it, and how
\* a guide it was sent has ended, as GuideBodies does, which keeps to its slots.
AnswersAreTrue == TagMeansContent /\ Guides!BodiesAreTold

\* Converges, and NoneHeld at last: a consumer that keeps polling comes to hold
\* what the cache holds of what the source lists, or others alike; and every
\* guide that is asked for ends, its slot let go of, whoever goes and whenever the server is closed.
EverythingFollows ==
  \/ <>[](IF Serving THEN stop # "no" ELSE Guides!NoneHeld)
  \/ <>[](Serving /\ Follows)
=============================================================================
