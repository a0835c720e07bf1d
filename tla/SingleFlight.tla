---------------------------- MODULE SingleFlight ----------------------------
(***************************************************************************)
(* What the request cache promises the callers of executeNode and of       *)
(* resolveBatchedChild: per key at most one flight in a whole request, led *)
(* by one caller; everyone else who wants the key gets the outcome of that *)
(* flight, or gives up because its own context was cancelled.              *)
(***************************************************************************)
CONSTANTS Callers, Keys, Outcomes, NoKey, NoOutcome, Cancelled

VARIABLES
  want,     \* want[c]: the key a caller asked for, or NoKey
  flight,   \* flight[k]: "none", "flying" or "landed"
  leads,    \* callers leading a flight
  landed,   \* landed[k]: the outcome of the flight
  got       \* got[c]: what the caller was given, or NoOutcome

sfVars == <<want, flight, leads, landed, got>>

Init ==
  /\ want = [c \in Callers |-> NoKey]
  /\ flight = [k \in Keys |-> "none"]
  /\ leads = {}
  /\ landed = [k \in Keys |-> NoOutcome]
  /\ got = [c \in Callers |-> NoOutcome]

Ask(c, k) == want[c] = NoKey /\ want' = [want EXCEPT ![c] = k]

Give(c, o) == got' = [got EXCEPT ![c] = o]

Lead(c, k) ==
  /\ flight[k] = "none"
  /\ flight' = [flight EXCEPT ![k] = "flying"]
  /\ leads' = leads \cup {c}
  /\ Ask(c, k)
  /\ UNCHANGED <<landed, got>>

Land(c, o) ==
  /\ c \in leads
  /\ leads' = leads \ {c}
  /\ flight[want[c]] = "flying"
  /\ flight' = [flight EXCEPT ![want[c]] = "landed"]
  /\ landed' = [landed EXCEPT ![want[c]] = o]
  /\ Give(c, o)
  /\ UNCHANGED want

Follow(c, k) ==
  /\ flight[k] = "flying"
  /\ Ask(c, k)
  /\ UNCHANGED <<flight, leads, landed, got>>

AskAndTake(c, k) ==
  /\ flight[k] = "landed"
  /\ Ask(c, k)
  /\ Give(c, landed[k])
  /\ UNCHANGED <<flight, leads, landed>>

Follower(c) == want[c] # NoKey /\ c \notin leads /\ got[c] = NoOutcome

Take(c) ==
  /\ Follower(c)
  /\ flight[want[c]] = "landed"
  /\ Give(c, landed[want[c]])
  /\ UNCHANGED <<want, flight, leads, landed>>

GiveUp(c) ==
  /\ Follower(c)
  /\ Give(c, Cancelled)
  /\ UNCHANGED <<want, flight, leads, landed>>

Next ==
  \E c \in Callers :
    \/ \E k \in Keys : Lead(c, k) \/ Follow(c, k) \/ AskAndTake(c, k)
    \/ \E o \in Outcomes : Land(c, o)
    \/ Take(c)
    \/ GiveUp(c)

Spec == Init /\ [][Next]_sfVars
=============================================================================
