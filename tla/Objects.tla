------------------------------- MODULE Objects --------------------------------
(***************************************************************************)
(* The JSON conversions of src/include/aegis/gateway/objects: what the     *)
(* rows of Classes make of a whole payload, read by from_json, and of a    *)
(* whole object, written by to_json; and what the rows of Loads make of a  *)
(* payload the cache is loaded from.                                       *)
(***************************************************************************)
EXTENDS Sequences, FiniteSets, Loads

\* F(v) and f, with v and the values of f worked out once: TLC evaluates an
\* argument and a function anew at every use.
Using(v, F(_)) == CHOOSE r \in {F(x) : x \in {v}} : TRUE
Once(f) == f @@ <<>>

-----------------------------------------------------------------------------
(* Objects.                                                                *)

\* An object is a sequence too: <<>> when every field has its default.
Pack(o) == IF \A k \in DOMAIN o : o[k] = <<>> THEN <<>> ELSE <<o>>
Unpack(C, v) == IF v = <<>> THEN [k \in DOMAIN Class[C] |-> <<>>] ELSE v[1]

(***************************************************************************)
(* What a conversion comes to: a value; an exception; the end of the       *)
(* program, when a noexcept function throws; or undefined, when a key that *)
(* is not there is read from a const object, which the library asserts and *)
(* a release build does not.                                               *)
(***************************************************************************)
Good(v) == [is |-> "value", of |-> v]
Bad(how) == [is |-> how, of |-> <<>>]

\* All the parts of a conversion, together: the first that fails decides, and
\* one that is undefined may be any of the others.
Together(parts, whole) ==
    LET kinds == {parts[k].is : k \in DOMAIN parts}
    IN  IF "undefined" \in kinds THEN Bad("undefined")
        ELSE IF "terminates" \in kinds THEN Bad("terminates")
        ELSE IF "throws" \in kinds THEN Bad("throws")
        ELSE Good(whole)
Values(parts) == [k \in DOMAIN parts |-> parts[k].of]

-----------------------------------------------------------------------------
(* from_json.                                                              *)

\* The keys of a class that from_json, or a load, takes from the payload.
Taken(class, json) ==
    {k \in DOMAIN class :
        \/ class[k].read \in {"needed", "copied"}
        \/ class[k].read = "ofVoice" /\ Given(json, "bitrate")
        \/ class[k].read = "bare" /\ Has(json, k)
        \/ class[k].read = "given" /\ Given(json, k)}

Rowed == Class @@ LoadClass
RECURSIVE DecodeAs(_, _), DecodeRows(_, _)
DecodeAs(kind, json) ==
    CASE kind = "id" -> Good(IF json.t = "atom" THEN json.v ELSE <<>>)
      [] kind = "plain" ->
            IF json.t = "atom" THEN Good(json.v) ELSE Bad("throws")
      [] kind = "idOf" ->
            IF json.t # "object" THEN Bad("throws")
            ELSE IF ~Has(json, "id") THEN Bad("undefined")
            ELSE DecodeAs("id", json.f["id"])
      [] kind = "list" -> IF json.t = "array" THEN Good(<<>>) ELSE Bad("throws")
      [] OTHER ->
            LET Packed(got) ==
                    IF got.is = "value" THEN Good(Pack(got.of))
                    ELSE IF got.is = "throws" /\ kind \in Noexcept
                    THEN Bad("terminates") ELSE got
            IN  Using(DecodeRows(Rowed[kind], json), Packed)

\* An index into what is no object throws; into an object that lacks the key it
\* is undefined.  A loop over null does nothing.
DecodeRows(class, payload) ==
    LET Joined(parts) == Together(parts, Values(parts))
        Key(json, k) ==
            IF json.t # "object" THEN Bad("throws")
            ELSE IF ~Has(json, k)
            THEN IF class[k].read = "copied" THEN DecodeAs(class[k].kind, Null)
                 ELSE Bad("undefined")
            ELSE IF ~class[k].many THEN DecodeAs(class[k].kind, json.f[k])
            ELSE IF json.f[k] = Null THEN Good(<<>>)
            ELSE Using(Once([i \in DOMAIN json.f[k].s |->
                                DecodeAs(class[k].kind, json.f[k].s[i])]), Joined)
        From(k) == IF class[k].read = "asId" THEN "id" ELSE k
        Whole(got) == Together(got, [k \in DOMAIN class |->
                                        IF From(k) \in DOMAIN got
                                        THEN got[From(k)].of ELSE <<>>])
        FromJson(json) ==
            Using(Once([k \in Taken(class, json) |-> Key(json, k)]), Whole)
    IN  Using(payload, FromJson)
Decode(C, json) == DecodeAs(C, json)

-----------------------------------------------------------------------------
(* to_json.                                                                *)

\* The conditions of a writer that are not about the field itself: an embed's
\* pictures by their text or url, a channel's id and owner by another field, an
\* activity by its name and type.
Allowed(C, k, o) ==
    /\ C = "embed" /\ k \in {"image", "thumbnail"}
          => Unpack(k, o[k])["url"] # <<>>
    /\ C = "embed" /\ k = "footer" => Unpack(k, o[k])["text"] # <<>>
    /\ C = "channel" /\ k = "id" => o["channel_id"] # <<>>
    /\ C = "channel" /\ k = "owner_id" => o["bitrate"] # <<>>
    /\ C = "activity" /\ k \notin {"name", "type"} => o["name"] # <<>>
    /\ C = "activity" /\ k = "url" => o["type"] = <<"Streaming">>
    /\ C = "activity" /\ k \notin {"name", "type", "flags", "url"}
          => o["type"] = <<>>

\* mutant: the bits an overwrite denies are not written.
Written_NoDeny(C, o) ==
    {k \in DOMAIN Class[C] \ {"deny"} :
        /\ Class[C][k].write = "always" \/ o[k] # <<>>
        /\ Class[C][k].write # "never"
        /\ Allowed(C, k, o)}
\* The owner of a channel is written when it is a voice channel, set or not.
Written(C, o) ==
    {k \in DOMAIN Class[C] :
        /\ \/ Class[C][k].write = "always"
           \/ Class[C][k].write = "set" /\ o[k] # <<>>
           \/ C = "channel" /\ k = "owner_id"
        /\ Allowed(C, k, o)}

\* The text of a value of some kind: the whole of an object or what it throws.
RECURSIVE EncodeAs(_, _)
EncodeAs(kind, v) ==
    IF kind \in Scalars THEN Good(Atom(v))
    ELSE
      LET Element(k, e) == EncodeAs(Class[kind][k].kind, e)
          Listed(parts) == Together(parts, Array(Values(parts)))
          Key(o, k) ==
              IF kind = "party" /\ k = "size" THEN Bad("throws")
              ELSE IF Class[kind][k].many
              THEN Using(Once([i \in DOMAIN o[k] |-> Element(k, o[k][i])]), Listed)
              ELSE Element(k, o[k])
          Whole(parts) == Together(parts, IF parts = <<>> THEN Null
                                          ELSE Object(Values(parts)))
          ToJson(o) ==
              Using(Once([k \in Written(kind, o) |-> Key(o, k)]), Whole)
      IN  Using(Unpack(kind, v), ToJson)
Encode(C, o) == EncodeAs(C, Pack(o))

-----------------------------------------------------------------------------
(* Payloads.                                                               *)

\* What the peer sends when it leaves nothing out.  Only a guild comes with role
\* objects: the roles of a member or a presence are ids (user.cpp:84-93 reads them
\* so), although their classes read role objects too.
RECURSIVE PayloadAs(_)
PayloadOf(class) ==
    Object([k \in {j \in DOMAIN class : class[j].read # "asId"} |->
              IF ~class[k].many THEN PayloadAs(class[k].kind)
              ELSE IF class[k].kind = "role" /\ "members" \notin DOMAIN class
              THEN Array(<<Atom(<<"x">>)>>)
              ELSE Array(<<PayloadAs(class[k].kind)>>)])
PayloadAs(kind) ==
    CASE kind \in {"id", "plain"} -> Atom(<<"x">>)
      [] kind = "idOf" -> Object("id" :> Atom(<<"x">>))
      [] OTHER -> PayloadOf(Class[kind])

\* An object with every field set.
RECURSIVE FullAs(_)
FullAs(kind) ==
    IF kind \in Scalars THEN <<"x">>
    ELSE <<[k \in DOMAIN Class[kind] |->
              IF Class[kind][k].many THEN <<FullAs(Class[kind][k].kind)>>
              ELSE FullAs(Class[kind][k].kind)]>>
=============================================================================
