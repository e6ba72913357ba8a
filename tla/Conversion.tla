----------------------------- MODULE Conversion -----------------------------
(***************************************************************************)
(* A program that fills in an options object member by member, passes it to*)
(* a method, reads the value back and passes that on again, as applications*)
(* do with configurations, descriptions, codecs, samples and images.  The  *)
(* conversions themselves are operators of MediaDictionaries and of the    *)
(* modules it extends; this module ties them together by type.             *)
(***************************************************************************)
EXTENDS MediaDictionaries, FiniteSets

CONSTANTS Kinds,      \* the dictionaries the program uses, or "LegacyStats" or "RTCError"
          MaxMembers, \* bound: members given beside the required ones
          Casts,      \* numbers of 64 bits that an undefined cast of a double may give
          MaxReports  \* bound: reports of legacy statistics

ASSUME CastsAssumption == Casts # {} /\ Casts \subseteq 0 .. 2 ^ Bits[64] - 1

VARIABLES kind,         \* the dictionary
          cast,         \* what this build makes of a cast whose result is undefined
          members,      \* the members that the program has given, with their values
          stage,        \* "filling", "passed", "read"
          outcome,      \* the result of passing it
          again,        \* the result of passing what was read
          domException, \* setDOMException has been called
          reports       \* legacy statistics collected so far
vars == <<kind, cast, members, stage, outcome, again, domException, reports>>

List(name) ==
  CASE name = "DataChannelInit"              -> DataChannelInit_List
    [] name = "IceCandidate"                 -> IceCandidate_List
    [] name = "RTCOAuthCredential"           -> RTCOAuthCredential_List
    [] name = "IceServer"                    -> IceServer_List
    [] name = "UnsignedShortRange"           -> UnsignedShortRange_List
    [] name = "RTCConfiguration"             -> RTCConfiguration_List
    [] name = "SessionDescription"           -> RTCSessionDescriptionInit_List
    [] name = "RTCOfferOptions"              -> RTCOfferOptions_List
    [] name = "RTCAnswerOptions"             -> RTCAnswerOptions_List
    [] name = "RtpCodecCapability"           -> RtpCodecCapability_List
    [] name = "RtpCodecParameters"           -> RtpCodecParameters_List
    [] name = "RtpEncodingParameters"        -> RtpEncodingParameters_List
    [] name = "RtcpParameters"               -> RtcpParameters_List
    [] name = "RtpHeaderExtensionParameters" -> RtpHeaderExtensionParameters_List
    [] name = "RtpParameters"                -> RtpParameters_List
    [] name = "RtpTransceiverInit"           -> RtpTransceiverInit_List
    [] name = "RTCVideoSourceInit"           -> RTCVideoSourceInit_List
    [] name = "RTCMediaStreamInit"           -> RTCMediaStreamInit_List
    [] name = "RTCDtlsFingerprint"           -> RTCDtlsFingerprint_List
    [] name = "RTCOnDataEvent"               -> RTCOnDataEvent_List
    [] name \in {"I420ImageData", "RgbaImageData", "RgbaToI420"} -> ImageData_List
    [] OTHER                                 -> <<>>

Make(name, a) ==
  CASE name = "DataChannelInit"              -> DataChannelInit_Fn(a)
    [] name = "IceCandidate"                 -> IceCandidate_Fn(a)
    [] name = "IceServer"                    -> IceServer_Fn(a)
    [] name = "UnsignedShortRange"           -> UnsignedShortRange_Fn(a)
    [] name = "RTCConfiguration"             -> RTCConfiguration_Fn(a)
    [] name = "SessionDescription"           -> SessionDescription_Fn(a)
    [] name = "RTCOfferOptions"              -> RTCOfferOptions_Fn(a)
    [] name = "RtpCodecCapability"           -> RtpCodecCapability_Fn(a)
    [] name = "RtpCodecParameters"           -> RtpCodecParameters_Fn(a)
    [] name = "RtpEncodingParameters"        -> RtpEncodingParameters_Fn(a, cast)
    [] name = "RtcpParameters"               -> RtcpParameters_Fn(a)
    [] name = "RtpHeaderExtensionParameters" -> RtpHeaderExtensionParameters_Fn(a)
    [] name = "RtpParameters"                -> RtpParameters_Fn(a)
    [] name = "RtpTransceiverInit"           -> RtpTransceiverInit_Fn(a)
    [] name = "RTCOnDataEvent"               -> RTCOnDataEvent_Fn(a)
    [] name = "I420ImageData"                -> I420ImageData(a)
    [] name = "RgbaImageData"                -> RgbaImageData(a)
    [] OTHER                                 -> Valid(a)

\* From<T>(value): the conversion that belongs to a C++ type.
RECURSIVE From(_, _)
From(type, v) ==
  CASE type.k = "bool"        -> FromBool(v)
    [] type.k = "double"      -> FromDouble(v)
    [] type.k = "string"      -> FromString(v)
    [] type.k = "text"        -> FromText(v)
    [] type.k = "object"      -> FromObject(v)
    [] type.k = "function"    -> FromFunction(v)
    [] type.k = "ArrayBuffer" -> FromArrayBuffer(v)
    [] type.k = "MediaStream" -> FromInstance("MediaStream", v)
    [] type.k = "uint"        -> FromUnsigned(type.w, v, cast)
    [] type.k = "int"         -> FromSigned(type.w, v)
    [] type.k = "enum"        -> FromEnum(type, v)
    [] type.k = "vector"      -> FromVector(v, [i \in DOMAIN v.v |-> From(type.of, v.v[i])])
    [] type.k = "either"      -> FromEither(From(type.l, v), From(type.r, v))
    [] type.k = "dict" /\ type.name = "ExtendedRTCConfiguration" ->
         ExtendedRTCConfiguration(v, From(Dict("RTCConfiguration"), v),
                                  From(Dict("UnsignedShortRange"), Get(v, "portRange")))
    [] type.k = "dict" /\ type.name # "ExtendedRTCConfiguration" ->
         LET list  == List(type.name)
             bound == FromDictionary(v, list, [i \in DOMAIN list |-> From(list[i].type, Get(v, list[i].name))])
         IN  FlatMap(bound, Make(type.name, bound.value))

\* From<Napi::Value>(value), for the dictionaries that are read back.
To(name, x) ==
  CASE name = "ExtendedRTCConfiguration"     -> ExtendedRTCConfiguration_To(x)
    [] name = "SessionDescription"           -> SessionDescription_To(x)
    [] name = "IceCandidate"                 -> IceCandidate_To(x)
    [] name = "UnsignedShortRange"           -> UnsignedShortRange_To(x)
    [] name = "IceServer"                    -> IceServer_To(x)
    [] name = "RtpCodecCapability"           -> \* getCapabilities().codecs[0]
         RtpCapabilities_To([codecs |-> <<x>>, header_extensions |-> <<[uri |-> "a"]>>]).v["codecs"].v[1]
    [] name = "RtpCodecParameters"           -> RtpCodecParameters_To(x)
    [] name = "RtpEncodingParameters"        -> RtpEncodingParameters_To(x)
    [] name = "RtcpParameters"               -> RtcpParameters_To(x)
    [] name = "RtpHeaderExtensionParameters" -> RtpHeaderExtensionParameters_To(x)
    [] name = "RtpParameters"                -> RtpParameters_To(x)
    [] name = "RTCOnDataEvent"               -> RTCOnDataEvent_To(x)
\* These are all that have both directions, but for frames, whose bytes are followed below.
Readable ==
  {"ExtendedRTCConfiguration", "SessionDescription", "IceCandidate", "UnsignedShortRange", "IceServer",
   "RtpCodecCapability", "RtpCodecParameters", "RtpEncodingParameters", "RtcpParameters",
   "RtpHeaderExtensionParameters", "RtpParameters", "RTCOnDataEvent"}

---------------------------------------------------------------------------
\* The values that the program tries for a member, the good ones first.
Members(name) ==
  IF name = "ExtendedRTCConfiguration"
  THEN Append(List("RTCConfiguration"), Default(Dict("UnsignedShortRange"), "portRange", UnboundedRange))
  ELSE List(name)

Server(url) == Obj("urls" :> url)
RECURSIVE Samples(_)
Samples(type) ==
  CASE type.k = "bool"     -> << Bool(TRUE), Num(0), Undefined >>
    [] type.k = "double"   -> << Halves(5), NaN, Num(2 ^ Bits[32]), Str("a") >>
    [] type.k = "string"   -> << Str("a"), Str(""), Str("bad"), Null, Symbol, Throws >>
    [] type.k = "object"   -> << Arr(<<>>), Null >>
    [] type.k = "uint"     -> << Num(0), Halves(3), Num(2 ^ Bits[type.w] - 1), Num(2 ^ Bits[type.w]),
                                 Num(-1), NaN, Str("a") >>
    [] type.k = "int"      -> << Num(2), Halves(-3), Num(2 ^ (Bits[type.w] - 1)), Undefined, Null >>
    [] type.k = "enum"     -> << Str(type.supported[1]), Str(type.supported[Len(type.supported)]),
                                 Str(IF type.unsupported = <<>> THEN "a" ELSE type.unsupported[1]), Undefined >>
    [] type.k = "ArrayBuffer" -> << Buffer(4), Buffer(6), View(6, 6), View(4, 6), Undefined >>
    [] type.k = "MediaStream" -> << Instance("MediaStream", "stream"), Instance("RTCRtpSender", "sender"), Obj(<<>>) >>
    [] type.k = "vector"   -> << Arr(<<>>), Arr(<<Samples(type.of)[1]>>),
                                 Arr(<<Samples(type.of)[1], Null, Undefined>>), Null >>
    [] type.k = "either"   -> << Samples(type.l)[1], Samples(type.l)[2], Samples(type.r)[1], Symbol, Undefined >>
    [] type.k = "dict" /\ type.name = "IceServer" ->
         << Server(Str("a")), Server(Arr(<<Str("a"), Str("b")>>)), Obj(<<>>),
            Server(Str("undefined")), Server(Arr(<<Str("")>>)), Server(Str("")) >>
    [] type.k = "dict" /\ type.name = "UnsignedShortRange" ->
         << Obj("min" :> Num(1)), Obj([min |-> Num(3), max |-> Num(2)]), Obj("max" :> Num(-1)) >>
    [] type.k = "dict" /\ type.name = "RtpCodecParameters" ->
         << Obj([payloadType |-> Num(96), mimeType |-> Str(<<"audio", "/", "opus">>),
                 clockRate |-> Num(8000), channels |-> Num(2)]), Obj("payloadType" :> Num(256)),
            Obj([payloadType |-> Num(97), mimeType |-> Str(<<"video", "/", "VP8">>),
                 clockRate |-> Num(2 ^ Bits[32] - 1), sdpFmtpLine |-> Str(<<"a", "=", "1">>)]) >>
    [] type.k = "dict" /\ type.name = "RtpEncodingParameters" ->
         << Obj([rid |-> Str("a"), maxBitrate |-> Num(9), scaleResolutionDownBy |-> Halves(3)]),
            Obj([active |-> Num(0), ssrc |-> Num(7), maxFramerate |-> Num(30)]),
            Obj("maxBitrate" :> Num(2 ^ Bits[32] - 1)) >>
    [] OTHER -> << Obj(<<>>), Num(1) >>

Texts(ss) == [i \in DOMAIN ss |-> Str(ss[i])]
ValuesOf(m) ==
  CASE m.name = "mimeType"    -> Texts(<< <<"audio", "/", "opus">>, <<"video", "/", "VP8">>, <<"opus">> >>)
    [] m.name = "sdpFmtpLine" -> Texts(<< <<"a", "=", "1", ";", "b", "=", "2">>,
                                          <<"a", "=", "1", ";", "a", "=", "2">>, <<"flag">>, <<"a", "=">> >>)
    [] m.name = "id" /\ m.type.w = 32 ->
         << Num(0), Num(2 ^ Bits[16] - 2), Num(2 ^ Bits[16] - 1), Num(2 ^ Bits[16]), Str("a") >>
    [] m.name \in {"iceServers", "codecs", "encodings"} ->
         Samples(m.type) \o [n \in DOMAIN Samples(m.type.of) |-> Arr(<<Samples(m.type.of)[n]>>)]
    [] m.name = "sampleRate"  -> << Num(200), Num(250), Num(99) >>
    [] m.name \in {"width", "height"} -> << Num(2), Num(4), Num(1), Num(0) >>
    [] m.name = "data"        -> [n \in 0 .. 32 |-> Buffer(n)]
    [] OTHER                  -> Samples(m.type)

Init ==
  /\ kind \in Kinds /\ cast \in Casts
  /\ members = <<>> /\ stage = "filling"
  /\ outcome = Invalid(<<>>) /\ again = Invalid(<<>>)
  /\ domException = FALSE /\ reports = <<>>

SetMember(i, n) ==
  LET m == Members(kind)[i]
      more == {j \in DOMAIN Members(kind) : Members(kind)[j].need # "required"
                                             /\ Members(kind)[j].name \in DOMAIN members}
  IN  /\ stage = "filling" /\ (m.need = "required" \/ Cardinality(more) < MaxMembers)
      /\ m.name \notin DOMAIN members /\ n \in DOMAIN ValuesOf(m)
      /\ members' = members @@ (m.name :> ValuesOf(m)[n])
      /\ UNCHANGED <<kind, cast, stage, outcome, again, domException, reports>>

\* rgbaToI420(image, target) with a target of 2 by 2.
Target == Obj([width |-> Num(2), height |-> Num(2), data |-> Buffer(6)])
RgbaToI420(info) ==
  LET pair == FromArguments(<< From(Dict("RgbaImageData"), Argument(info, 1)),
                               From(Dict("I420ImageData"), Argument(info, 2)) >>)
  IN  FlatMap(pair, Dimensions(pair.value[1], pair.value[2]))

\* new RTCPeerConnection(configuration)
Configured(c) ==
  FlatMap(c, IF validateConfiguration(c.value.configuration) THEN c
             ELSE Invalid(<<"The given configuration is invalid.">>))

\* What the method that takes an object of this kind makes of it.
Passed(object) ==
  CASE kind = "RgbaToI420"               -> RgbaToI420(<<object, Target>>)
    [] kind = "ExtendedRTCConfiguration" -> Configured(From(Dict(kind), object))
    [] OTHER                             -> From(Dict(kind), object)

Pass ==
  /\ stage = "filling" /\ stage' = "passed"
  /\ outcome' = Passed(Obj(members))
  /\ UNCHANGED <<kind, cast, members, again, domException, reports>>

ReadAndPass ==
  /\ stage = "passed" /\ kind \in Readable /\ IsValid(outcome)
  /\ stage' = "read"
  /\ again' = Passed(To(kind, outcome.value))
  /\ UNCHANGED <<kind, cast, members, outcome, domException, reports>>

\* Errors are made before and after the JavaScript layer has set its class.
SetDOMException(v) ==
  /\ kind = "RTCError"
  /\ domException' = (domException \/ IsValid(FromFunction(v)))
  /\ UNCHANGED <<kind, cast, members, stage, outcome, again, reports>>

\* A report of libwebrtc (external); the name of a value may well be "type".
AddReport(r) ==
  /\ kind = "LegacyStats" /\ Len(reports) < MaxReports
  /\ reports' = Append(reports, r)
  /\ UNCHANGED <<kind, cast, members, stage, outcome, again, domException>>

Reports == [id : {"a", "b"}, type : {"ssrc"}, timestamp : 1 .. 2,
            values : {<<>>, << <<"type", "b">> >>, << <<"n", "b">>, <<"n", "c">> >>}]
\* The report that getStats gives the same values in, as members of three types.
Standard(r) ==
  [id |-> r.id, type |-> r.type, timestamp |-> r.timestamp, members |->
     << [name |-> "n", type |-> "double", defined |-> r.values # <<>>, value |-> 3],
        [name |-> "s", type |-> "sequence_uint32", defined |-> TRUE, value |-> <<1, 2>>],
        [name |-> "qualityLimitationDurations", type |-> "map", defined |-> TRUE, value |-> <<>>] >>]

Next ==
  \/ \E i \in DOMAIN Members(kind) : \E n \in DOMAIN ValuesOf(Members(kind)[i]) : SetMember(i, n)
  \/ Pass
  \/ ReadAndPass
  \/ \E v \in {[t |-> "function", v |-> <<>>], Null} : SetDOMException(v)
  \/ \E r \in Reports : AddReport(r)
Spec == Init /\ [][Next]_vars

---------------------------------------------------------------------------
\* A value of a C++ type.
Fits(type, x) ==
  CASE type.k = "bool"   -> x \in BOOLEAN
    [] type.k = "uint"   -> x \in 0 .. 2 ^ Bits[type.w] - 1
    [] type.k = "int"    -> x \in - (2 ^ (Bits[type.w] - 1)) .. 2 ^ (Bits[type.w] - 1) - 1
    [] type.k = "enum"   -> x \in ToSet(type.supported)
    [] type.k = "vector" -> x \in Seq(Range(x))
    [] OTHER             -> TRUE

Result(m) == GetMember(Obj(members), m, From(m.type, Get(Obj(members), m.name)))

\* TypeOK: a program is before, at or after the call; a conversion that failed says why
\* (the callers report ToErrors()[0] without looking) and one that succeeded does not.
TypeOK ==
  /\ stage \in {"filling", "passed", "read"} /\ kind \in Kinds
  /\ stage # "filling" =>
       \/ outcome.is \in {"valid", "thrown"} /\ outcome.errors = <<>>
       \/ outcome.is = "invalid" /\ outcome.errors # <<>>
  /\ again.is \in {"valid", "invalid", "thrown"}
  /\ DOMAIN members \subseteq {Members(kind)[i].name : i \in DOMAIN Members(kind)}
  /\ Len(reports) <= MaxReports

\* Every member that cannot be converted is reported, in the order of the dictionary and
\* whatever the order in which they were given; a vector reports its first bad element.
\* (curry and Validation::Apply, which macros chain by operators.)
AllErrorsReported ==
  stage # "filling" =>
    LET all == [i \in DOMAIN Members(kind) |-> Result(Members(kind)[i])]
        bad == \E i \in DOMAIN all : ~IsValid(all[i])
    IN  CASE \E i \in DOMAIN all : all[i].is = "thrown" -> outcome = Thrown
          [] bad /\ \A i \in DOMAIN all : all[i].is # "thrown" ->
               outcome = Invalid(FlattenSeq([i \in DOMAIN all |-> all[i].errors]))
          [] ~bad -> outcome.is # "thrown"

\* A member that is a number reaches C++ as that number without its fraction, if its type
\* holds it, and is refused if not: it is never reduced modulo its width.  Two exceptions
\* are the code's: NaN, and the one number above 64 bits that equals UINT64_MAX as a double.
Least(type) == IF type.k = "int" THEN - (2 ^ (Bits[type.w] - 1)) ELSE 0
Most(type)  == 2 ^ (IF type.k = "int" THEN Bits[type.w] - 1 ELSE Bits[type.w]) - 1
InRange(type, v) == v.t = "number" /\ 2 * Least(type) <= v.v /\ v.v <= 2 * Most(type)
Slips(type, v)   == v.t = "nan" \/ (type = Unsigned(64) /\ v = Num(2 ^ Bits[64]))
ValuesFit ==
  stage = "filling" =>
    \A i \in DOMAIN Members(kind) :
      LET m == Members(kind)[i]
          v == Get(Obj(members), m.name)
          r == From(m.type, v)
      IN  /\ IsValid(r) => Fits(m.type, r.value)
          /\ m.type.k \in {"int", "uint"} =>
               /\ InRange(m.type, v) => r = Valid(Whole(v.v))
               /\ IsValid(r) => InRange(m.type, v) \/ Slips(m.type, v)

\* An unsigned number that libwebrtc takes as an int is that int, in the field of its name,
\* up to the largest int (data_channel_init.cc:40, rtp_encoding_parameters.cc:64).
Ints(x) ==
  CASE kind = "DataChannelInit" ->
         [maxPacketLifeTime |-> x.maxRetransmitTime, maxRetransmits |-> x.maxRetransmits, id |-> x.id]
    [] kind = "RtpCodecCapability"    -> [clockRate |-> x.clock_rate[1]]
    [] kind = "RtpCodecParameters"    -> [clockRate |-> x.codec.clock_rate[1]]
    [] kind = "RtpEncodingParameters" -> [maxBitrate   |-> FromMaybe(x.max_bitrate_bps, 0),
                                          maxFramerate |-> FromMaybe(x.max_framerate, 0)]
    [] OTHER                          -> <<>>
IntsKept ==
  stage = "passed" /\ IsValid(outcome) =>
    \A p \in DOMAIN members \cap DOMAIN Ints(outcome.value) :
      InRange(Signed(32), members[p]) => Ints(outcome.value)[p] = Whole(members[p].v)

\* A member that is undefined is a member that is missing, wherever it is looked up.
Neutral ==
  stage = "passed" =>
    \A i \in DOMAIN Members(kind) :
      LET m == Members(kind)[i]
      IN  m.name \notin DOMAIN members =>
            outcome = Passed(Obj(members @@ (m.name :> Undefined)))

\* What JavaScript can see of a value: the maximum frame rate and the source (SSRC) of an
\* encoding and the degradation preference are never given back, and the parameters of a
\* codec come back under other names; a server has its addresses in one of two fields.
Seen(name, x) ==
  CASE name = "IceServer" -> IceServer_Means(x)
    [] name = "ExtendedRTCConfiguration" ->
         [x EXCEPT !.configuration.servers = [i \in DOMAIN @ |-> IceServer_Means(@[i])]]
    [] name = "RtpCodecParameters"    -> [x EXCEPT !.codec.parameters = <<>>]
    [] name = "RtpEncodingParameters" -> [x EXCEPT !.ssrc = Nothing, !.max_framerate = Nothing]
    [] OTHER -> x
SeenRtp(x) ==
  [x EXCEPT !.degradation_preference = "balanced",
            !.codecs    = [i \in DOMAIN @ |-> Seen("RtpCodecParameters", @[i])],
            !.encodings = [i \in DOMAIN @ |-> Seen("RtpEncodingParameters", @[i])]]
Meaning(x) == IF kind = "RtpParameters" THEN SeenRtp(x) ELSE Seen(kind, x)

\* What the setters refuse of what the getters give: numbers that became negative in an int
\* of libwebrtc, and null for a line that is negative.
Refused(name, x) ==
  CASE name = "RtpCodecCapability"    -> x.clock_rate[1] < 0
    [] name = "RtpCodecParameters"    -> x.codec.clock_rate[1] < 0
    [] name = "RtpEncodingParameters" -> FromMaybe(x.max_bitrate_bps, 0) < 0
    [] name = "IceCandidate"          -> x.line < 0
    [] name = "RtpParameters"         ->
         \/ \E i \in DOMAIN x.codecs : x.codecs[i].codec.clock_rate[1] < 0
         \/ \E i \in DOMAIN x.encodings : FromMaybe(x.encodings[i].max_bitrate_bps, 0) < 0
    [] OTHER                          -> FALSE

\* What a setter takes for something else: no text is given back as null, or not at all,
\* and the text "null" or "undefined" is read.
Mistaken(x) ==
  CASE kind = "IceCandidate" /\ x.mid = ""             -> [x EXCEPT !.mid = "null"]
    [] kind = "RtpParameters" /\ x.transaction_id = "" -> [x EXCEPT !.transaction_id = "undefined"]
    [] OTHER -> x

\* What a program reads from one object and passes to another is refused in the cases above
\* and in no others, and else means there what it meant, but for the mistakes above.
ReadBack ==
  stage = "read" =>
    /\ IsValid(again) <=> ~Refused(kind, outcome.value)
    /\ IsValid(again) => Meaning(again.value) = Meaning(Mistaken(outcome.value))

\* JavaScript is shown exactly the bytes that were allocated for the samples.
SamplesCovered ==
  stage # "filling" /\ kind = "RTCOnDataEvent" /\ IsValid(outcome) =>
    RTCOnDataEvent_To(outcome.value).v["samples"].v = outcome.value.samples

\* An image of even size is on the other side what it was, whether libwebrtc keeps its
\* rows side by side or apart, and no plane is written past its end.  libyuv is handed
\* images that have the bytes their common size calls for.
Bytes(n) == [i \in 1 .. n |-> i]
Apart(plane, width, stride) ==
  [n \in 1 .. (Len(plane) \div width) * stride |->
     LET column == (n - 1) % stride
     IN  IF column < width THEN plane[((n - 1) \div stride) * width + column + 1] ELSE 0]
Padded(f, pad) ==
  [f EXCEPT !.strideY = f.w + pad, !.y = Apart(f.y, f.w, f.w + pad), !.strideUV = f.w \div 2 + pad,
            !.u = Apart(f.u, f.w \div 2, f.w \div 2 + pad), !.v = Apart(f.v, f.w \div 2, f.w \div 2 + pad)]
FrameSurvives ==
  stage # "filling" /\ IsValid(outcome) =>
    /\ kind = "I420ImageData" =>
         LET w == outcome.value[1]
             h == outcome.value[2]
             f == I420Buffer(w, h, Bytes(outcome.value[3]))
         IN  w > 0 /\ w % 2 = 0 /\ h % 2 = 0 =>
               \A pad \in 0 .. 1 : FlattenSeq(VideoFrame_To(Padded(f, pad))) = Bytes(outcome.value[3])
    /\ kind = "RgbaToI420" => outcome.value[1] = <<2, 2, 16>> /\ outcome.value[2] = <<2, 2, 6>>

\* Both ways of telling JavaScript about an error of libwebrtc name it alike, before and
\* after the class DOMException is known, and never for no error.
ErrorsAgree ==
  \A type \in RTCErrorTypes :
    RTCError_To(domException, type) = MapV(SomeError(type), SomeError_To(domException, SomeError(type).value))

\* A legacy report has a type, its own, whatever its values are called; each of its names
\* can be looked up; the response is as new as its newest report.  A report of getStats is
\* found by its identifier, its last version, with what is defined in it and nothing else.
StatsReadable ==
  LET response == StatsResponse(reports)
      map      == RTCStatsReport_To([i \in DOMAIN reports |-> Standard(reports[i])]).v
  IN  \A i \in DOMAIN reports :
        /\ \E j \in i .. Len(reports) :
             /\ reports[j].id = reports[i].id
             /\ map[reports[i].id].v["timestamp"] = Num(reports[j].timestamp)
             /\ DOMAIN map[reports[i].id].v \ {"id", "timestamp", "type"}
                  = IF reports[j].values = <<>> THEN {"s"} ELSE {"n", "s"}
        /\ GetType(response.reports[i]) = Str(reports[i].type)
        /\ \A k \in DOMAIN reports[i].values :
             /\ reports[i].values[k][1] \in ToSet(Names(response.reports[i]))
             /\ Stat(response.reports[i], reports[i].values[k][1]).t = "string"
        /\ response.timestamp >= reports[i].timestamp

\* On the way into libwebrtc: results are well formed, numbers are kept or refused, undefined
\* is absent.
TakenIn == TypeOK /\ ValuesFit /\ IntsKept /\ Neutral

\* On the way out and back: what can be read can be passed on and means the same, with the
\* named exceptions; samples, frames, errors and statistics are what they were.
GivenBack == ReadBack /\ SamplesCovered /\ FrameSurvives /\ ErrorsAgree /\ StatsReadable

\* The class RTCIceCandidate of the JavaScript layer changes nothing for the native side.
CandidateUnchanged ==
  stage # "filling" /\ kind = "IceCandidate" =>
    From(Dict(kind), RTCIceCandidate(Obj(members))) = outcome

\* What a program reads from one object it can pass to another, and nothing is lost.
SurvivesReading ==
  stage = "read" => IsValid(again) /\ again.value = outcome.value

\* No unsigned number becomes another one, or "not set", in an int of libwebrtc.
NumbersKept ==
  stage = "passed" /\ IsValid(outcome) =>
    \A p \in DOMAIN members \cap DOMAIN Ints(outcome.value) :
      members[p].t = "number" => Ints(outcome.value)[p] = Whole(members[p].v)

\* napi.cc:104 refuses what is not "a 64-bit unsigned integer".
WideRefused ==
  stage = "filling" =>
    \A i \in DOMAIN Members(kind) :
      LET m == Members(kind)[i]
          v == Get(Obj(members), m.name)
      IN  m.type = Unsigned(64) /\ IsValid(From(m.type, v)) => InRange(m.type, v)

\* data_channel_init.cc names the identifiers it admits in its error.
IdBelowLimit ==
  stage # "filling" /\ kind = "DataChannelInit" /\ IsValid(outcome) => outcome.value.id <= 65534
=============================================================================
