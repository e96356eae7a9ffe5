--------------------------- MODULE FieldProximity ---------------------------
(***************************************************************************)
(* What happens in the field of an identity before there is a ping:        *)
(*                                                                         *)
(*   field-state      the identity posts its field, open or not            *)
(*   field-close      closes it                                            *)
(*   intent-remember  remembers what the identity looks for                *)
(*   proximity-enter  an object comes near: an event and perhaps a ping    *)
(*   proximity-exit   the object leaves: the event is marked               *)
(*   relevance-check  decides what ping-from-relevance goes by             *)
(*                                                                         *)
(* A field is kept twice, by its identifier and as the current one of its  *)
(* identity.  Terms, radius and score are a phrase that is the same or     *)
(* not.  Left out are records and indexes nothing decides by, trails, and  *)
(* an exit that names no event.                                            *)
(***************************************************************************)
EXTENDS PingPipeline

CONSTANT
  Phrases   \* what intents look for and objects are

FieldKinds ==
  {"field", "current-field", "intent", "proximity", "proximity-exit"}

(* "field:<identity>" is the kind current-field, whose identifiers are the
   identities that have fields in a behaviour.                             *)
ASSUME FieldAssumption ==
  /\ FieldKinds \subseteq DOMAIN Pool
  /\ Pool["current-field"] \subseteq Identities

Field(f)        == <<"field", f>>
CurrentField(i) == <<"current-field", i>>
Intent(n)       == <<"intent", n>>
Proximity(x)    == <<"proximity", x>>
Exit(z)         == <<"proximity-exit", z>>

(* intent:index:<identity>, the one index that decides.                    *)
IntentsOf(i) == <<"intents-of", i>>

(* field-state.js: whoever posts a field owns it, whatever was there.      *)
FieldPuts(f, by, active) ==
  LET field == [id |-> f, identity |-> by, active |-> active]
  IN  <<Writes(CurrentField(by), field), Writes(Field(f), field)>>

PostField(r) ==
  \E by \in Chosen("current-field"), f \in Chosen("field"), active \in BOOLEAN :
    Goes(r, FieldPuts(f, by, active))

(* A field that the identity owns and that is open, found by its identifier
   or as the current one.                                                  *)
OpenFields(by) ==
  {k \in {CurrentField(by)} \union {Field(f) : f \in Chosen("field")} :
     Stored(k) /\ kv[k].identity = by /\ kv[k].active}

(* field-close.js: the current field is read again, and closed with the one
   by identifier if it is the same.  A slip: it is left as it is.          *)
ClosePuts_OneCopy(field) == <<Writes(Field(field.id), [field EXCEPT !.active = FALSE])>>

ClosePuts(field) ==
  LET closed == [field EXCEPT !.active = FALSE]
  IN  <<Writes(Field(field.id), closed),
        Refreshes(CurrentField(field.identity), closed)>>

ReadToClose(r) ==
  \E by \in Chosen("current-field") : \E k \in OpenFields(by) :
    StartReading(r, [op |-> "close", field |-> kv[k]])

(* Once the presence of the identity has been read as well.                *)
CloseField(r) == HasRead(r, "close") /\ WillPut(r, ClosePuts(reading[r].field))

(* intent-remember.js                                                      *)
RememberIntent(r) ==
  \E by \in Chosen("current-field"), n \in Chosen("intent"), phrase \in Phrases,
     active \in BOOLEAN :
    Goes(r, <<Writes(Intent(n), [identity |-> by, phrase |-> phrase, active |-> active]),
              Appends(IntentsOf(by), n)>>)

(* readIntents gets them one by one, and keeps those that may do.  Who
   remembered an intent is asked where relevance is checked, not here.     *)
Suits(n, title) == Stored(Intent(n)) /\ kv[Intent(n)].active /\ kv[Intent(n)].phrase = title

ReadIntents(r, op, Keeps(_)) ==
  /\ HasRead(r, op)
  /\ \E n \in reading[r].left :
       Reads(r, [reading[r] EXCEPT !.left = @ \ {n},
                                   !.found = IF Keeps(n) THEN @ \union {n} ELSE @])

(* proximity-enter.js, for the field of any identity but the owner of the
   object, whether or not it is open: the field is not read.               *)
ReadIntentIndex(r) ==
  \E at \in Chosen("current-field"), owner \in Identities, title \in Phrases :
    /\ owner # at
    /\ StartReading(r, [op |-> "enter", at |-> at, owner |-> owner, title |-> title,
                        left |-> Listed(IntentsOf(at)), found |-> {}])

ReadIntentToEnter(r) ==
  ReadIntents(r, "enter", LAMBDA n : Suits(n, reading[r].title))

NewEvent(at, owner, intent) ==
  [at |-> at, owner |-> owner, intent |-> intent, exit |-> None]

(* The event is stored before the ping.  A slip: after it.                 *)
EnterPuts_PingFirst(x, p, at, owner, intent) ==
  <<Writes(Ping(p), [NewPing(at, owner, "queued") EXCEPT !.event = x]),
    Writes(Proximity(x), NewEvent(at, owner, intent))>>

EnterPuts(x, p, at, owner, intent) ==
  <<Writes(Proximity(x), NewEvent(at, owner, intent)),
    Writes(Ping(p), [NewPing(at, owner, "queued") EXCEPT !.event = x])>>

(* decideProximity takes the intent with the best score; an object that is
   not available makes an event and no ping.                               *)
EnterField(r) ==
  /\ HasRead(r, "enter") /\ reading[r].left = {}
  /\ LET asks == reading[r]
     IN  \E x \in Minted("proximity") :
           \/ WillPut(r, <<Writes(Proximity(x), NewEvent(asks.at, asks.owner, None))>>)
           \/ \E n \in asks.found, p \in Minted("ping") :
                WillPut(r, EnterPuts(x, p, asks.at, asks.owner, n))

(* proximity-exit.js: the event is put back from the copy read.            *)
ExitPuts(z, x, event) ==
  <<Writes(Exit(z), [event |-> x, at |-> event.at]),
    Writes(Proximity(x), [event EXCEPT !.exit = z])>>

ExitField(r) ==
  \E x \in Chosen("proximity"), z \in Minted("proximity-exit") :
    Stored(Proximity(x)) /\ Goes(r, ExitPuts(z, x, kv[Proximity(x)]))

(* relevance-check.js, in a field of one's own that is open, for an intent
   that is named or for all those of the index.                            *)
ReadField(r) ==
  \E by \in Chosen("current-field"), title \in Phrases, n \in OrNone(Chosen("intent")) :
    /\ OpenFields(by) # {}
    /\ StartReading(r, [op |-> "check", by |-> by, title |-> title, named |-> n])

(* Neither the owner nor the status of an intent that is named is asked.   *)
ReadNamedIntent(r) ==
  /\ HasRead(r, "check") /\ reading[r].named # None
  /\ LET n == reading[r].named
         does == Stored(Intent(n)) /\ kv[Intent(n)].phrase = reading[r].title
     IN  Reads(r, [op |-> "checked", by |-> reading[r].by, title |-> reading[r].title,
                   left |-> {}, found |-> IF does THEN {n} ELSE {}])

ListIntents(r) ==
  /\ HasRead(r, "check") /\ reading[r].named = None
  /\ Reads(r, [op |-> "checked", by |-> reading[r].by, title |-> reading[r].title,
               left |-> Listed(IntentsOf(reading[r].by)), found |-> {}])

ReadIntentToCheck(r) ==
  ReadIntents(r, "checked", LAMBDA n :
    Suits(n, reading[r].title) /\ kv[Intent(n)].identity = reading[r].by)

CheckRelevance(r) ==
  /\ HasRead(r, "checked") /\ reading[r].left = {}
  /\ \E v \in Chosen("relevance") :
       WillPut(r, <<Writes(Relevance(v), [identity |-> reading[r].by,
                                          relevant |-> reading[r].found # {}])>>)

FieldStep(r) ==
  \/ PostField(r) \/ ReadToClose(r) \/ CloseField(r) \/ RememberIntent(r)
  \/ ReadIntentIndex(r) \/ ReadIntentToEnter(r) \/ EnterField(r) \/ ExitField(r)
  \/ ReadField(r) \/ ReadNamedIntent(r) \/ ListIntents(r)
  \/ ReadIntentToCheck(r) \/ CheckRelevance(r)

-----------------------------------------------------------------------------
IsField(field) ==
  field \in [id : Pool["field"], identity : Pool["current-field"], active : BOOLEAN]

EventRecord ==
  [at : Identities, owner : Identities, intent : OrNone(Pool["intent"]),
   exit : OrNone(Pool["proximity-exit"])]

RelevanceRecord == [identity : Identities, relevant : BOOLEAN]

FieldsTyped ==
  /\ \A f \in Chosen("field") : Stored(Field(f)) => IsField(kv[Field(f)])
  /\ \A i \in Chosen("current-field") : Stored(CurrentField(i)) =>
       IsField(kv[CurrentField(i)]) /\ kv[CurrentField(i)].identity = i
  /\ \A x \in Chosen("proximity") : Stored(Proximity(x)) => kv[Proximity(x)] \in EventRecord
  /\ \A v \in Chosen("relevance") : Stored(Relevance(v)) => kv[Relevance(v)] \in RelevanceRecord

(* When requests come one at a time, the two copies of a field agree on
   whether it is open, as long as nobody else posts the identifier: no more
   pairs disagree than requests were cut off between the two puts.         *)
CopiesAgree ==
  bounds.oneByOne /\ Quiet =>
    LET apart == {i \in Chosen("current-field") :
          /\ Stored(CurrentField(i))
          /\ LET f == kv[CurrentField(i)].id
             IN  /\ Stored(Field(f))
                 /\ kv[Field(f)].identity = i
                 /\ kv[Field(f)].active # kv[CurrentField(i)].active}
    IN  Cardinality(apart) <= crashes

(* Whatever overlaps or is cut off, a ping that an object made by coming near
   names an event on record, which came of an intent on record, between the
   same two, who are not the same; no event makes two pings; and an event
   that is over names its exit.                                            *)
EventsBacked ==
  /\ \A p \in Chosen("ping") :
       Stored(Ping(p)) /\ kv[Ping(p)].event # None =>
         LET ping == kv[Ping(p)]
             x == ping.event
         IN  /\ Stored(Proximity(x))
             /\ kv[Proximity(x)].at = ping.from /\ kv[Proximity(x)].owner = ping.to
             /\ ping.from # ping.to
             /\ kv[Proximity(x)].intent # None
             /\ Stored(Intent(kv[Proximity(x)].intent))
             /\ \A q \in Chosen("ping") :
                  Stored(Ping(q)) /\ kv[Ping(q)].event = x => q = p
  /\ \A x \in Chosen("proximity") : Stored(Proximity(x)) =>
       LET z == kv[Proximity(x)].exit
       IN  z # None => Stored(Exit(z)) /\ kv[Exit(z)].event = x
=============================================================================
