---------------------------- MODULE Events_proofs ----------------------------
(* Theorems about the handlers of gateway events, for any payloads, any    *)
(* loads and conversions that LoadingAssumption and ConversionAssumption   *)
(* allow and any callbacks.                                                *)
EXTENDS Events, SequenceTheorems, TLAPS

-----------------------------------------------------------------------------
(* What every handler may do about a guild it does not know.               *)

Answers == {"made", "silent", "rawOnly", "throws", "faults"}
Answering(table) == \A e \in DOMAIN table : table[e].unknown \in Answers

LEMMA TableAnswers == \A t \in Tables : Answering(t)
  <1>1. Answering(MessageEvents) /\ Answering(DeletionEvents) /\ Answering(TypingEvents)
    BY DEF Answering, Answers, Handler, MessageEvents, DeletionEvents, TypingEvents
  <1>2. Answering(ReactionEvents) /\ Answering(ChannelEvents) /\ Answering(NoticeEvents)
    BY DEF Answering, Answers, Handler, ReactionEvents, ChannelEvents, NoticeEvents
  <1>3. Answering(GuildEvents) /\ Answering(InventoryEvents) /\ Answering(BanEvents)
    BY DEF Answering, Answers, Handler, GuildEvents, InventoryEvents, BanEvents
  <1>4. Answering(MemberEvents) /\ Answering(UserEvents) /\ Answering(RoleEvents)
    BY DEF Answering, Answers, Handler, MemberEvents, UserEvents, RoleEvents
  <1>5. Answering(VoiceEvents) /\ Answering(SessionEvents)
    BY DEF Answering, Answers, Handler, VoiceEvents, SessionEvents
  <1> QED BY <1>1, <1>2, <1>3, <1>4, <1>5 DEF Tables

LEMMA EventAnswers == \A e \in DOMAIN Event : Event[e].unknown \in Answers
  <1> SUFFICES ASSUME NEW e \in DOMAIN Event PROVE Event[e].unknown \in Answers
    OBVIOUS
  <1>1. \E t \in Tables : e \in DOMAIN t
    BY DEF Event
  <1>2. PICK t \in Tables : Event[e] = t[e] /\ e \in DOMAIN t
    BY <1>1 DEF Event
  <1> QED BY <1>2, TableAnswers DEF Answering

-----------------------------------------------------------------------------
(* The course of a handler: what it has changed, and whom it has told, by  *)
(* the time it is at each stage.                                           *)

Stages == {"posted", "dropped", "lookup", "load", "convert", "raw", "rawOnly", "typed",
           "remove", "over", "caught", "terminated", "fault", "held", "copied"}
Handling == stage \in Stages \ {"held", "copied"}

\* The callbacks, once they are drawn.
Drawn == hook \in Hooks
TypeInv ==
    /\ job \in Jobs /\ known \in BOOLEAN
    /\ effect \in BOOLEAN
    /\ hook # Undrawn => Drawn
    /\ job.kind = "event" => Handling
    /\ job.kind = "copy" => stage \in {"held", "copied"}

\* What the callbacks were told.
RawTold == IF hook.raw = "none" THEN <<>> ELSE <<"raw">>
Telling ==
    /\ told # <<>> => Drawn /\ stage \in {"typed", "remove", "over", "caught"}
    /\ stage = "typed" => Drawn /\ hook.raw # "throws" /\ told = RawTold
    /\ stage = "remove" => told = SetHooks /\ ConvertsFirst

\* What was changed: nothing before the load, and after it what the event is to
\* change, unless the guild is unknown or its removal is still to come.
Passed == Changes(job) /\ ~Unasked(job) /\ ~Ignored(job)
Changing ==
    /\ stage \in {"posted", "dropped", "lookup", "load", "rawOnly"} => ~effect
    /\ stage = "load" => ~Unasked(job) /\ ~Ignored(job)
    /\ stage = "convert" /\ effect => ~ConvertsFirst /\ Passed
    /\ stage = "rawOnly" => Unknown
    /\ stage \in {"convert", "raw", "typed"} \/ told # <<>> =>
          ConvertsFirst \/ Unknown \/ effect = Changes(job)
    /\ ConvertsFirst /\ told # <<>> /\ stage = "over" => effect \/ Unknown

\* The invariant that ToldWhatChanged and EffectDespiteHooks follow from.
Course == TypeInv /\ (job.kind = "event" => Telling /\ Changing /\ ToldWhatChanged)

LEMMA Unchanging ==
    ASSUME UNCHANGED <<job, known>>
    PROVE  /\ Passed' = Passed /\ Unknown' = Unknown /\ ConvertsFirst' = ConvertsFirst
           /\ (Changes(job))' = Changes(job)
           /\ (Unasked(job))' = Unasked(job) /\ (Ignored(job))' = Ignored(job)
  BY DEF Passed, Unknown, ConvertsFirst, Changes, Unasked, Ignored, InGuild, AsksGuild

LEMMA CourseInit == ASSUME Init PROVE Course
  <1>1. TypeInv
    BY DEF Init, InitEvent, InitCopy, Undrawn, TypeInv, Handling, Stages
  <1>2. ASSUME job.kind = "event" PROVE Telling /\ Changing /\ ToldWhatChanged
    <2>1. stage = "posted" /\ ~effect /\ told = <<>>
      BY <1>2 DEF Init, InitEvent, InitCopy
    <2> QED BY <2>1 DEF Telling, Changing, ToldWhatChanged
  <1> QED BY <1>1, <1>2 DEF Course

\* Until the handler ends, a step that changes nothing and tells nobody.
LEMMA QuietStep ==
    ASSUME Course, job.kind = "event", Drop \/ Begin
    PROVE  Course'
  <1>1. UNCHANGED <<job, known, hook, effect, told>> /\ stage = "posted"
    BY DEF Drop, Begin
  <1>2. stage' \in {"dropped", "lookup", "convert"}
    BY DEF Drop, Begin, Now
  <1>3. ~effect' /\ told' = <<>>
    BY <1>1 DEF Course, Telling, Changing
  <1>4. stage' = "convert" => ConvertsFirst'
    BY <1>1 DEF Drop, Begin, Now, ConvertsFirst
  <1>5. TypeInv'
    BY <1>1, <1>2 DEF Course, TypeInv, Drawn, Handling, Stages
  <1>6. Telling'
    BY <1>2, <1>3 DEF Telling
  <1>7. Changing'
    BY <1>2, <1>3, <1>4 DEF Changing
  <1>8. ToldWhatChanged'
    BY <1>3 DEF ToldWhatChanged
  <1> QED BY <1>5, <1>6, <1>7, <1>8 DEF Course

LEMMA LookupStep ==
    ASSUME Course, job.kind = "event", Lookup
    PROVE  Course'
  <1>1. UNCHANGED <<job, known, hook, effect, told>> /\ stage = "lookup"
    BY DEF Lookup
  <1>2. ~effect /\ told = <<>>
    BY <1>1 DEF Course, Telling, Changing
  <1>3. \/ stage' \in {"fault", "over", "caught"}
        \/ stage' = "rawOnly" /\ Unknown
        \/ stage' = "load" /\ ~Unasked(job) /\ ~Ignored(job)
    <2>1. Event[job.name].unknown \in Answers
      BY JobsAssumption, EventAnswers DEF Course, TypeInv
    <2> QED BY <2>1, Zenon DEF Lookup, Now, Answers
  <1>4. TypeInv'
    BY <1>1, <1>3 DEF Course, TypeInv, Drawn, Handling, Stages
  <1>5. Telling'
    BY <1>1, <1>2, <1>3 DEF Telling
  <1>6. Changing'
    BY <1>1, <1>2, <1>3, Unchanging DEF Changing
  <1>7. ToldWhatChanged'
    BY <1>1, <1>2 DEF ToldWhatChanged
  <1> QED BY <1>4, <1>5, <1>6, <1>7 DEF Course

\* A load that fails ends the handler with nobody told, and only where it may.
LEMMA LoadStep ==
    ASSUME Course, job.kind = "event", Load
    PROVE  Course'
  <1>1. UNCHANGED <<job, known, hook, told>> /\ stage = "load" /\ effect' = Changes(job)
    BY DEF Load
  <1>2. told = <<>> /\ told' = <<>> /\ ~Unasked(job) /\ ~Ignored(job)
    BY <1>1 DEF Course, Telling, Changing
  <1>3. \/ stage' = "caught" /\ job.name \in FailsLoading("throws")
        \/ stage' = "terminated" /\ job.name \in FailsLoading("terminates")
        \/ stage' = "fault" /\ job.name \in FailsLoading("undefined")
        \/ stage' = IF ConvertsFirst THEN "raw" ELSE "convert"
    <2>1. known \in BOOLEAN /\ job \in Jobs
      BY DEF Course, TypeInv
    <2>2. Loading(job, known) = "value" \/ job.name \in FailsLoading(Loading(job, known))
      BY <2>1, LoadingAssumption
    <2>3. CASE Loading(job, known) = "value"
      BY <2>3 DEF Load, Resumes, Now
    <2>4. CASE Loading(job, known) # "value"
      <3>1. job.name \in FailsLoading(Loading(job, known))
        BY <2>2, <2>4
      <3>2. Loading(job, known) \in {"throws", "terminates", "undefined"}
        BY <3>1, Zenon DEF FailsLoading
      <3> QED BY <2>4, <3>1, <3>2 DEF Load, Resumes, Now
    <2> QED BY <2>3, <2>4
  <1>4. effect' \in BOOLEAN
    BY <1>1, Zenon DEF Changes
  <1>5. TypeInv'
    BY <1>1, <1>3, <1>4 DEF Course, TypeInv, Drawn, Handling, Stages
  <1>6. Telling'
    BY <1>2, <1>3 DEF Telling
  <1>7. Changing'
    BY <1>1, <1>2, <1>3, Unchanging DEF Changing, Passed
  <1>8. ToldWhatChanged'
    BY <1>1, <1>2, <1>3, Zenon DEF ToldWhatChanged, Ended
  <1> QED BY <1>5, <1>6, <1>7, <1>8 DEF Course

LEMMA ConvertStep ==
    ASSUME Course, job.kind = "event", Convert
    PROVE  Course'
  <1>1. UNCHANGED <<job, known, hook, effect, told>> /\ stage = "convert"
    BY DEF Convert
  <1>2. told' = <<>>
    BY <1>1 DEF Course, Telling
  <1>3. \/ stage' \in {"caught", "terminated", "fault"} /\ Reading(job) # "value"
           /\ (stage' = "caught" <=> Reading(job) = "throws")
        \/ stage' = "lookup" /\ ConvertsFirst
        \/ stage' = "raw" /\ ~ConvertsFirst
    BY DEF Convert, Resumes, Now
  <1>4. effect => ~ConvertsFirst /\ Passed
    BY <1>1 DEF Course, Changing
  <1>5. ASSUME effect, stage' \notin {"lookup", "raw"}
        PROVE  stage' = "caught" /\ job.name \in FailsLate
    BY <1>3, <1>4, <1>5, ConversionAssumption DEF Course, TypeInv, Passed
  <1>6. TypeInv'
    BY <1>1, <1>3 DEF Course, TypeInv, Drawn, Handling, Stages
  <1>7. Telling'
    BY <1>2, <1>3 DEF Telling
  <1>8. Changing'
    BY <1>1, <1>2, <1>3, <1>4, <1>5, Unchanging DEF Course, Changing
  <1>9. ToldWhatChanged'
    BY <1>1, <1>2, <1>3, <1>5 DEF ToldWhatChanged, Ended
  <1> QED BY <1>6, <1>7, <1>8, <1>9 DEF Course

LEMMA Words ==
    /\ Append(<<>>, "raw") = <<"raw">>
    /\ Append(<<>>, "typed") = <<"typed">>
    /\ Append(<<"raw">>, "typed") = <<"raw">> \o <<"typed">>
    /\ <<>> \o <<>> = <<>> /\ <<>> \o <<"typed">> = <<"typed">> /\ <<"raw">> \o <<>> = <<"raw">>
  <1>1. Append(<<>>, "raw") = <<"raw">> /\ Append(<<>>, "typed") = <<"typed">>
    OBVIOUS
  <1>2. /\ <<>> \in Seq({"raw", "typed"}) /\ <<"raw">> \in Seq({"raw", "typed"})
        /\ <<"typed">> \in Seq({"raw", "typed"})
    OBVIOUS
  <1>3. Append(<<"raw">>, "typed") = <<"raw">> \o <<"typed">>
    BY <1>2, AppendIsConcat
  <1>4. <<>> \o <<>> = <<>> /\ <<>> \o <<"typed">> = <<"typed">> /\ <<"raw">> \o <<>> = <<"raw">>
    BY <1>2, ConcatEmptySeq
  <1> QED BY <1>1, <1>3, <1>4

LEMMA DrawStep ==
    ASSUME Course, job.kind = "event", Draw
    PROVE  Course'
  <1>1. UNCHANGED <<job, known, stage, effect, told>> /\ stage \in {"raw", "rawOnly"} /\ Drawn'
    BY DEF Draw, Drawn
  <1>2. told = <<>>
    BY <1>1 DEF Course, Telling
  <1>3. TypeInv'
    BY <1>1 DEF Course, TypeInv, Handling
  <1>4. Telling'
    BY <1>1, <1>2 DEF Telling
  <1>5. Changing'
    BY <1>1, Unchanging DEF Course, Changing
  <1>6. ToldWhatChanged'
    BY <1>1 DEF ToldWhatChanged, Ended
  <1> QED BY <1>3, <1>4, <1>5, <1>6 DEF Course

LEMMA CallRawStep ==
    ASSUME Course, job.kind = "event", CallRaw
    PROVE  Course'
  <1>1. UNCHANGED <<job, known, effect>> /\ stage \in {"raw", "rawOnly"} /\ Drawn
        /\ UNCHANGED hook /\ Drawn'
    BY DEF CallRaw, Course, TypeInv, Drawn
  <1>2. told = <<>> /\ told' = RawTold'
    BY <1>1, Words DEF Course, Telling, CallRaw, RawTold
  <1>3. \/ stage' = "caught" /\ hook'.raw = "throws" /\ told' = <<"raw">>
        \/ stage' = "over" /\ stage = "rawOnly"
        \/ stage' = "typed" /\ stage = "raw" /\ hook'.raw # "throws"
    BY <1>1, <1>2 DEF CallRaw, Now, RawTold
  <1>4. TypeInv'
    BY <1>1, <1>3 DEF Course, TypeInv, Drawn, Handling, Stages
  <1>5. Telling'
    BY <1>1, <1>2, <1>3 DEF Telling, RawTold
  <1>6. Changing'
    BY <1>1, <1>3, Unchanging DEF Course, Changing
  <1>7. ToldWhatChanged'
    BY <1>1, <1>3 DEF Course, Changing, ToldWhatChanged, Ended
  <1> QED BY <1>4, <1>5, <1>6, <1>7 DEF Course

LEMMA CallTypedStep ==
    ASSUME Course, job.kind = "event", CallTyped
    PROVE  Course'
  <1>1. UNCHANGED <<job, known, hook, effect>> /\ stage = "typed"
    BY DEF CallTyped
  <1>2. Drawn /\ hook.raw # "throws" /\ told = RawTold
    BY <1>1 DEF Course, Telling
  <1>3. told' = SetHooks /\ SetHooks' = SetHooks
    BY <1>1, <1>2, Words DEF CallTyped, SetHooks, RawTold
  <1>4. \/ stage' = "caught"
        \/ stage' = "remove" /\ ConvertsFirst
        \/ stage' = "over" /\ ~ConvertsFirst
    BY DEF CallTyped, Now
  <1>5. TypeInv'
    BY <1>1, <1>4 DEF Course, TypeInv, Drawn, Handling, Stages
  <1>6. Telling'
    BY <1>1, <1>2, <1>3, <1>4, Unchanging DEF Telling, Drawn
  <1>7. Changing'
    BY <1>1, <1>4, Unchanging DEF Course, Changing
  <1>8. ToldWhatChanged'
    BY <1>3 DEF ToldWhatChanged
  <1> QED BY <1>5, <1>6, <1>7, <1>8 DEF Course

LEMMA RemoveGuildStep ==
    ASSUME Course, job.kind = "event", RemoveGuild
    PROVE  Course'
  <1>1. /\ UNCHANGED <<job, known, hook, told>> /\ stage = "remove"
        /\ stage' = "over" /\ effect' = TRUE
    BY DEF RemoveGuild, Now
  <1>2. told = SetHooks /\ SetHooks' = SetHooks /\ ConvertsFirst
    BY <1>1 DEF Course, Telling, SetHooks
  <1>3. TypeInv'
    BY <1>1 DEF Course, TypeInv, Drawn, Handling, Stages
  <1>4. Telling'
    BY <1>1 DEF Course, Telling, Drawn
  <1>5. Changing'
    BY <1>1, <1>2, Unchanging DEF Changing
  <1>6. ToldWhatChanged'
    BY <1>1, <1>2 DEF ToldWhatChanged
  <1> QED BY <1>3, <1>4, <1>5, <1>6 DEF Course

LEMMA CopyCourse ==
    ASSUME Course, job.kind = "copy", [Next]_vars
    PROVE  Course'
  <1>1. stage \in {"held", "copied"} /\ job.kind # "event"
    BY DEF Course, TypeInv
  <1>2. UNCHANGED <<job, known, hook, effect>> /\ stage' \in {"held", "copied"}
    BY <1>1 DEF Next, Drop, Begin, Lookup, Load, Convert, Draw, CallRaw, CallTyped,
                RemoveGuild, Copy, Now, vars
  <1> QED BY <1>1, <1>2 DEF Course, TypeInv, Drawn

LEMMA CourseStep == ASSUME Course, [Next]_vars PROVE Course'
  <1>1. CASE job.kind = "copy"
    BY <1>1, CopyCourse
  <1>2. CASE job.kind = "event"
    <2>1. ~Copy
      BY <1>2 DEF Course, TypeInv, Handling, Copy
    <2>2. CASE UNCHANGED vars
      BY <2>2, Unchanging DEF vars, Course, TypeInv, Handling, Telling, Changing, Drawn,
                  RawTold, SetHooks, ToldWhatChanged, Ended
    <2> QED BY <1>2, <2>1, <2>2, QuietStep, LookupStep, LoadStep, ConvertStep, DrawStep, CallRawStep,
               CallTypedStep, RemoveGuildStep DEF Next
  <1> QED BY <1>1, <1>2, JobsAssumption DEF Course, TypeInv

\* An event that changed the cache is told to both callbacks, the raw one first,
\* unless that one threw, or to neither when the load or the conversion failed in one
\* of the handlers where it may (core.cpp:1207-2082), for any payloads and callbacks.
THEOREM ToldSafely == Spec => []ToldWhatChanged
  <1>1. Course => ToldWhatChanged
    BY DEF Course, ToldWhatChanged, TypeInv
  <1> QED BY <1>1, CourseInit, CourseStep, PTL DEF Spec

\* A callback that throws undoes no change of the cache: what was told is there,
\* but for a guild that is to be removed (1484-1494), for any payloads and callbacks.
THEOREM EffectSafely == Spec => []EffectDespiteHooks
  <1>1. ASSUME Course PROVE EffectDespiteHooks
    <2> SUFFICES ASSUME job.kind = "event", Ended, told # <<>>, ~Unknown
                 PROVE  \/ effect
                        \/ job.name # "GUILD_DELETE" /\ ~Event[job.name].changes
                        \/ job.name = "CHANNEL_DELETE" /\ ~InGuild(job)
                        \/ job.name = "GUILD_DELETE" /\ stage = "caught"
      BY DEF EffectDespiteHooks
    <2>1. stage \in {"over", "caught"}
      BY <1>1 DEF Course, Telling, Ended
    <2>2. CASE ConvertsFirst
      BY <1>1, <2>1, <2>2 DEF Course, Changing, ConvertsFirst
    <2>3. CASE ~ConvertsFirst
      BY <1>1, <2>3 DEF Course, Changing, ConvertsFirst, Changes
    <2> QED BY <2>2, <2>3
  <1> QED BY <1>1, CourseInit, CourseStep, PTL DEF Spec
=============================================================================
