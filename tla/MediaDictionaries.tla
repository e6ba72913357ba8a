------------------------- MODULE MediaDictionaries -------------------------
(***************************************************************************)
(* The dictionaries of RTP parameters, audio samples, images, statistics   *)
(* and errors.                                                             *)
(*                                                                         *)
(* Text that is taken apart (MIME types, codec parameters) is a sequence of*)
(* tokens; separators are tokens too.  A plane of an image is a sequence of*)
(* bytes, a frame three planes of libwebrtc with the distance (stride)     *)
(* between their rows.                                                     *)
(***************************************************************************)
EXTENDS Dictionaries

\* Text before and after the first separator; both are the whole text without one.
Cut(text, separator) ==
  LET at == SelectInSeq(text, LAMBDA c : c = separator)
  IN  IF at = 0 THEN <<text, text>> ELSE <<SubSeq(text, 1, at - 1), SubSeq(text, at + 1, Len(text))>>
\* Non-empty or not, what stands between separators.
Pieces(text, separator) ==
  LET ends  == SetToSortSeq({i \in DOMAIN text : text[i] = separator} \cup {Len(text) + 1}, <)
      start == [k \in DOMAIN ends |-> IF k = 1 THEN 1 ELSE ends[k - 1] + 1]
  IN  [k \in DOMAIN ends |-> SubSeq(text, start[k], ends[k] - 1)]

\* Codecs.  The parameters are a map; a key that occurs twice keeps its last value.
ParametersOf(line) ==
  LET pairs == [k \in DOMAIN Pieces(line, ";") |-> Cut(Pieces(line, ";")[k], "=")]
      last(key) == CHOOSE k \in DOMAIN pairs :
                     pairs[k][1] = key /\ \A m \in k + 1 .. Len(pairs) : pairs[m][1] # key
  IN  [key \in {pairs[k][1] : k \in DOMAIN pairs} |-> pairs[last(key)][2]]
\* The line of the parameters, in the order of the map.
LineOf(prefix, lead, parameters) ==
  LET keys   == SetToSeq(DOMAIN parameters)
      one(k) == lead \o keys[k] \o <<"=">> \o parameters[keys[k]]
                  \o (IF k < Len(keys) THEN <<";">> ELSE <<>>)
  IN  prefix \o FlattenSeq([k \in DOMAIN keys |-> one(k)])
Kind(mimeType) == IF Cut(mimeType, "/")[1] = <<"audio">> THEN "audio" ELSE "video"
MimeType(c)    == <<c.kind, "/">> \o c.name
Codec(mimeType, clockRate, channels, line) ==
  [kind |-> Kind(mimeType), name |-> Cut(mimeType, "/")[2], clock_rate |-> Just(CastInt(clockRate)),
   num_channels |-> channels, parameters |-> IF IsJust(line) THEN ParametersOf(line[1]) ELSE <<>>]

RtpCodecCapability_List ==
  << Required(Scalar("text"), "mimeType"), Required(Unsigned(64), "clockRate"),
     Optional(Unsigned(8), "channels"), Optional(Scalar("text"), "sdpFmtpLine") >>
RtpCodecCapability_Fn(a) == Valid(Codec(a[1], a[2], a[3], a[4]))
\* Fault: a space before every parameter, as in an SDP.
FaultRtpCodecCapability_To(c) ==
  SetAll(<< <<"mimeType", Just(Str(MimeType(c)))>>, <<"clockRate", MaybeMap(c.clock_rate, Num(c.clock_rate[1]))>>,
            <<"channels", MaybeMap(c.num_channels, Num(c.num_channels[1]))>>,
            <<"sdpFmtpLine", IF c.parameters = <<>> THEN Nothing
                             ELSE Just(Str(LineOf(<<>>, <<" ">>, c.parameters)))>> >>)
RtpCodecCapability_To(c) ==
  SetAll(<< <<"mimeType", Just(Str(MimeType(c)))>>, <<"clockRate", MaybeMap(c.clock_rate, Num(c.clock_rate[1]))>>,
            <<"channels", MaybeMap(c.num_channels, Num(c.num_channels[1]))>>,
            <<"sdpFmtpLine", IF c.parameters = <<>> THEN Nothing
                             ELSE Just(Str(LineOf(<<>>, <<>>, c.parameters)))>> >>)

RtpCodecParameters_List == << Required(Unsigned(8), "payloadType") >> \o RtpCodecCapability_List
RtpCodecParameters_Fn(a) ==
  Valid([payload_type |-> a[1], codec |-> Codec(a[2], a[3], a[4], a[5])])
\* The line starts like the line of an SDP, and every parameter with a space.
RtpCodecParameters_To(p) ==
  SetAll(<< <<"payloadType", Just(Num(p.payload_type))>>, <<"mimeType", Just(Str(MimeType(p.codec)))>>,
            <<"clockRate", MaybeMap(p.codec.clock_rate, Num(p.codec.clock_rate[1]))>>,
            <<"channels", MaybeMap(p.codec.num_channels, Num(p.codec.num_channels[1]))>>,
            <<"sdpFmtpLine", IF p.codec.parameters = <<>> THEN Nothing
                             ELSE Just(Str(LineOf(<<"a", "=", "fmtp:">>, <<" ">>, p.codec.parameters)))>> >>)

\* Encodings.  What libwebrtc has no field for is converted and dropped.
RtpEncodingParameters_List ==
  << Optional(Scalar("string"), "rid"), Optional(Unsigned(32), "ssrc"),
     Optional(Unsigned(8), "codecPayloadType"), Optional(RTCDtxStatus, "dtx"),
     Default(Scalar("bool"), "active", TRUE), Default(RTCPriorityType, "priority", "low"),
     Optional(Unsigned(64), "ptime"), Optional(Unsigned(64), "maxBitrate"),
     Optional(Scalar("double"), "maxFramerate"), Optional(Scalar("double"), "scaleResolutionDownBy") >>
\* Fault: the two optional limits are taken for each other.
FaultRtpEncodingParameters_Fn(a, cast) ==
  Valid([rid |-> FromMaybe(a[1], ""), ssrc |-> a[2], active |-> a[5],
         max_bitrate_bps |-> MaybeMap(a[9], DoubleToInt(a[9][1], cast)),
         max_framerate |-> MaybeMap(a[8], CastInt(a[8][1])), scale |-> a[10]])
RtpEncodingParameters_Fn(a, cast) ==
  Valid([rid |-> FromMaybe(a[1], ""), ssrc |-> a[2], active |-> a[5],
         max_bitrate_bps |-> MaybeMap(a[8], CastInt(a[8][1])),
         max_framerate |-> MaybeMap(a[9], DoubleToInt(a[9][1], cast)), scale |-> a[10]])
\* Fault: only what is set is given back.
FaultRtpEncodingParameters_To(e) ==
  SetAll(<< <<"rid", Unless(e.rid, "")>>, <<"active", IF e.active THEN Just(Bool(TRUE)) ELSE Nothing>>,
            <<"maxBitrate", MaybeMap(e.max_bitrate_bps, Num(e.max_bitrate_bps[1]))>>,
            <<"scaleResolutionDownBy", e.scale>> >>)
RtpEncodingParameters_To(e) ==
  SetAll(<< <<"rid", Unless(e.rid, "")>>, <<"active", Just(Bool(e.active))>>,
            <<"maxBitrate", MaybeMap(e.max_bitrate_bps, Num(e.max_bitrate_bps[1]))>>,
            <<"scaleResolutionDownBy", e.scale>> >>)

RtcpParameters_List == << Default(Scalar("string"), "cname", ""), Default(Scalar("bool"), "reducedSize", FALSE) >>
RtcpParameters_Fn(a) == Valid([cname |-> a[1], reduced_size |-> a[2]])
RtcpParameters_To(r) ==
  SetAll(<< <<"cname", Unless(r.cname, "")>>, <<"reducedSize", Just(Bool(r.reduced_size))>> >>)
RtpHeaderExtensionParameters_List ==
  << Required(Scalar("string"), "uri"), Required(Unsigned(8), "id"),
     Default(Scalar("bool"), "encrypted", FALSE) >>
RtpHeaderExtensionParameters_Fn(a) == Valid([uri |-> a[1], id |-> a[2], encrypt |-> a[3]])
RtpHeaderExtensionParameters_To(x) ==
  SetAll(<< <<"uri", Just(Str(x.uri))>>, <<"id", Just(Num(x.id))>>, <<"encrypted", Just(Bool(x.encrypt))>> >>)
RtpHeaderExtensionCapability_To(x) == SetAll(<< <<"uri", Just(Str(x.uri))>> >>)
RtpCapabilities_To(c) ==
  SetAll(<< <<"codecs", Just(ToVector([i \in DOMAIN c.codecs |-> RtpCodecCapability_To(c.codecs[i])]))>>,
            <<"headerExtensions", Just(ToVector([i \in DOMAIN c.header_extensions |->
                                       RtpHeaderExtensionCapability_To(c.header_extensions[i])]))>> >>)

\* The identifier of the transaction is required on the way in and left out on the way
\* back when it is empty; the degradation preference is never given back.
RtpParameters_List ==
  << Required(Scalar("string"), "transactionId"),
     Required(Vector(Dict("RtpHeaderExtensionParameters")), "headerExtensions"),
     Required(Dict("RtcpParameters"), "rtcp"), Required(Vector(Dict("RtpCodecParameters")), "codecs"),
     Required(Vector(Dict("RtpEncodingParameters")), "encodings"),
     Default(DegradationPreference, "degradationPreference", "balanced") >>
RtpParameters_Fn(a) ==
  Valid([transaction_id |-> a[1], header_extensions |-> a[2], rtcp |-> a[3], codecs |-> a[4],
         encodings |-> a[5], degradation_preference |-> a[6]])
RtpParameters_To(p) ==
  SetAll(<< <<"transactionId", Unless(p.transaction_id, "")>>,
            <<"headerExtensions", Just(ToVector([i \in DOMAIN p.header_extensions |->
                                       RtpHeaderExtensionParameters_To(p.header_extensions[i])]))>>,
            <<"codecs", Just(ToVector([i \in DOMAIN p.codecs |-> RtpCodecParameters_To(p.codecs[i])]))>>,
            <<"rtcp", Just(RtcpParameters_To(p.rtcp))>>,
            <<"encodings", Just(ToVector([i \in DOMAIN p.encodings |-> RtpEncodingParameters_To(p.encodings[i])]))>> >>)

RtpTransceiverInit_List ==
  << Default(RtpTransceiverDirection, "direction", "sendrecv"),
     Default(Vector(Scalar("MediaStream")), "streams", <<>>),
     Default(Vector(Dict("RtpEncodingParameters")), "sendEncodings", <<>>) >>
RtpTransceiverInit_Fn(a) ==
  Valid([direction |-> a[1], stream_ids |-> a[2], send_encodings |-> a[3]])
RTCVideoSourceInit_List ==
  << Default(Scalar("bool"), "isScreencast", FALSE), Optional(Scalar("bool"), "needsDenoising") >>
RTCMediaStreamInit_List == << Required(Scalar("string"), "id") >>
RTCDtlsFingerprint_List == << Optional(Scalar("string"), "algorithm"), Optional(Scalar("string"), "value") >>

\* Samples: 10 ms of 16-bit audio.  The C++ value counts the bytes that were allocated.
RTCOnDataEvent_List ==
  << Required(Scalar("ArrayBuffer"), "samples"), Default(Unsigned(8), "bitsPerSample", 16),
     Required(Unsigned(16), "sampleRate"), Default(Unsigned(8), "channelCount", 1),
     Optional(Unsigned(16), "numberOfFrames") >>
ByteLength(channels, frames, bits) == (channels * frames * bits) \div 8
\* Fault: the number of frames that was given is believed.
FaultRTCOnDataEvent_Fn(a) ==
  LET frames == FromMaybe(a[5], a[3] \div 100)
  IN  IF a[2] # 16 THEN Invalid(<<"bitsPerSample">>)
      ELSE Valid([samples |-> a[1], bitsPerSample |-> a[2], sampleRate |-> a[3],
                  channelCount |-> a[4], numberOfFrames |-> Just(frames)])
RTCOnDataEvent_Fn(a) ==
  LET frames == a[3] \div 100
  IN  IF a[2] # 16 THEN Invalid(<<"bitsPerSample">>)
      ELSE IF FromMaybe(a[5], frames) # frames THEN Invalid(<<"numberOfFrames">>)
      ELSE IF a[1] # ByteLength(a[4], frames, a[2]) THEN Invalid(<<"byteLength">>)
      ELSE Valid([samples |-> a[1], bitsPerSample |-> a[2], sampleRate |-> a[3],
                  channelCount |-> a[4], numberOfFrames |-> Just(frames)])
\* JavaScript sees so many bytes at the address of the samples, as a typed array.
RTCOnDataEvent_To(d) ==
  LET shown == ByteLength(d.channelCount, d.numberOfFrames[1], d.bitsPerSample)
  IN  SetAll(<< <<"samples", Just(View(shown, shown))>>, <<"bitsPerSample", Just(Num(d.bitsPerSample))>>,
                <<"sampleRate", Just(Num(d.sampleRate))>>, <<"channelCount", Just(Num(d.channelCount))>>,
                <<"numberOfFrames", Just(Num(d.numberOfFrames[1]))>> >>)

\* Images: bytes at a width and a height, as I420 (a plane Y and two quarter planes) or
\* RGBA.  The C++ value here is the bytes themselves.
ImageData_List ==
  << Required(Signed(32), "width"), Required(Signed(32), "height"), Required(Scalar("ArrayBuffer"), "data") >>
I420ImageData(i) == IF i[3] = (i[1] * i[2] * 3) \div 2 THEN Valid(i) ELSE Invalid(<<"byteLength">>)
RgbaImageData(i) == IF i[3] = i[1] * i[2] * 4 THEN Valid(i) ELSE Invalid(<<"byteLength">>)
\* rgbaToI420 and i420ToRgba: libyuv (external) is called when both images have one size.
Dimensions(a, b) == IF a[1] = b[1] /\ a[2] = b[2] THEN Valid(<<a, b>>) ELSE Invalid(<<"Dimensions must match">>)

\* CreateI420Buffer: three planes of the image's bytes, as much as fits of each.
I420Buffer(w, h, bytes) ==
  [w |-> w, h |-> h, strideY |-> w, strideUV |-> (w + 1) \div 2, y |-> SubSeq(bytes, 1, w * h),
   u |-> SubSeq(bytes, w * h + 1, w * h + (w * h) \div 4),
   v |-> SubSeq(bytes, w * h + (w * h) \div 4 + 1, w * h + 2 * ((w * h) \div 4))]
\* Fault: the distance between rows is ignored.
FaultPlaneTo(plane, stride, source, width, destination) == SubSeq(plane, 1, destination)
\* One plane copied out: at once when source and destination have the same size, else
\* row by row.
PlaneTo(plane, stride, source, width, destination) ==
  IF source = destination THEN SubSeq(plane, 1, destination)
  ELSE [n \in 1 .. ((source + stride - 1) \div stride) * width |->
          plane[((n - 1) \div width) * stride + ((n - 1) % width) + 1]]
VideoFrame_To(f) ==
  LET chroma == (f.strideUV * f.h) \div 2
      quarter == (f.w * f.h) \div 4
  IN  << PlaneTo(f.y, f.strideY, f.strideY * f.h, f.w, f.w * f.h),
         PlaneTo(f.u, f.strideUV, chroma, f.w \div 2, quarter),
         PlaneTo(f.v, f.strideUV, chroma, f.w \div 2, quarter) >>

\* Statistics.  A member of a report has a name, a value when it is defined, and a type
\* (a scalar or a sequence) that decides its conversion.
RTCStatsMember_To(m) ==
  CASE m.type = "bool"            -> Bool(m.value)
    [] m.type = "string"          -> Str(m.value)
    [] m.type = "double"          -> Halves(m.value)
    [] m.type \in {"int32", "uint32", "int64", "uint64"} -> Num(m.value)
    [] m.type = "sequence_bool"   -> ToVector([i \in DOMAIN m.value |-> Bool(m.value[i])])
    [] m.type = "sequence_string" -> ToVector([i \in DOMAIN m.value |-> Str(m.value[i])])
    [] m.type = "sequence_double" -> ToVector([i \in DOMAIN m.value |-> Halves(m.value[i])])
    [] OTHER                      -> ToVector([i \in DOMAIN m.value |-> Num(m.value[i])])
RTCStats_To(s) ==
  SetAll(<< <<"id", Just(Str(s.id))>>, <<"timestamp", Just(Num(s.timestamp))>>, <<"type", Just(Str(s.type))>> >>
         \o [i \in DOMAIN s.members |->
               <<s.members[i].name,
                 IF s.members[i].name = "qualityLimitationDurations" \/ ~s.members[i].defined
                 THEN Nothing ELSE Just(RTCStatsMember_To(s.members[i]))>>])
\* A Map of JavaScript; a second report of one id replaces the first.
RTCStatsReport_To(report) ==
  LET ids == {report[i].id : i \in DOMAIN report}
      last(id) == CHOOSE i \in DOMAIN report :
                    report[i].id = id /\ \A j \in i + 1 .. Len(report) : report[j].id # id
  IN  Obj([id \in ids |-> RTCStats_To(report[last(id)])])
\* Legacy statistics: per report its type and its values, the first of a name kept, and
\* the newest time of all reports.
\* Fault: the type comes last.
FaultStatsResponse(reports) ==
  [timestamp |-> FoldSeq(LAMBDA r, t : IF r.timestamp > t THEN r.timestamp ELSE t, 0, reports),
   reports   |-> [i \in DOMAIN reports |->
      LET all == reports[i].values \o << <<"type", reports[i].type>> >>
      IN  [n \in {all[k][1] : k \in DOMAIN all} |->
             all[CHOOSE k \in DOMAIN all : all[k][1] = n /\ \A m \in 1 .. k - 1 : all[m][1] # n][2]]]]
StatsResponse(reports) ==
  [timestamp |-> FoldSeq(LAMBDA r, t : IF r.timestamp > t THEN r.timestamp ELSE t, 0, reports),
   reports   |-> [i \in DOMAIN reports |->
      LET all == << <<"type", reports[i].type>> >> \o reports[i].values
      IN  [n \in {all[k][1] : k \in DOMAIN all} |->
             all[CHOOSE k \in DOMAIN all : all[k][1] = n /\ \A m \in 1 .. k - 1 : all[m][1] # n][2]]]]
Names(report)      == SetToSeq(DOMAIN report)
Stat(report, name) == IF name \in DOMAIN report THEN Str(report[name]) ELSE Undefined
GetType(report)    == Str(report["type"])

\* Errors of libwebrtc, by their types; "NONE" must not occur.
RTCErrorTypes ==
  {"NONE", "UNSUPPORTED_OPERATION", "UNSUPPORTED_PARAMETER", "INVALID_PARAMETER", "INVALID_RANGE",
   "SYNTAX_ERROR", "INVALID_STATE", "INVALID_MODIFICATION", "NETWORK_ERROR", "RESOURCE_EXHAUSTED",
   "INTERNAL_ERROR", "OPERATION_ERROR_WITH_DATA"}
\* SomeError carries the name of a DOMException (left) or of an error (right) to JavaScript.
\* Fault: an internal error is no error of state.
FaultSomeError(type) ==
  CASE type = "NONE" -> Invalid(<<"No error?">>)
    [] type \in {"UNSUPPORTED_PARAMETER", "INVALID_PARAMETER"} -> Valid(Left("InvalidAccessError"))
    [] type = "INVALID_RANGE"        -> Valid(Right("RangeError"))
    [] type = "SYNTAX_ERROR"         -> Valid(Left("SyntaxError"))
    [] type = "INVALID_STATE"        -> Valid(Left("InvalidStateError"))
    [] type = "INVALID_MODIFICATION" -> Valid(Left("InvalidModificationError"))
    [] type = "NETWORK_ERROR"        -> Valid(Left("NetworkError"))
    [] OTHER                         -> Valid(Left("OperationError"))
SomeError(type) ==
  CASE type = "NONE" -> Invalid(<<"No error?">>)
    [] type \in {"UNSUPPORTED_PARAMETER", "INVALID_PARAMETER"} -> Valid(Left("InvalidAccessError"))
    [] type = "INVALID_RANGE"                      -> Valid(Right("RangeError"))
    [] type = "SYNTAX_ERROR"                       -> Valid(Left("SyntaxError"))
    [] type \in {"INVALID_STATE", "INTERNAL_ERROR"} -> Valid(Left("InvalidStateError"))
    [] type = "INVALID_MODIFICATION"               -> Valid(Left("InvalidModificationError"))
    [] type = "NETWORK_ERROR"                      -> Valid(Left("NetworkError"))
    [] OTHER                                       -> Valid(Left("OperationError"))
\* What JavaScript catches: class and name, the name in the message without DOMException.
CreateDOMException(domException, name) ==
  IF domException THEN [class |-> "DOMException", name |-> name] ELSE [class |-> "Error", name |-> name]
CreateError(name) == [class |-> name, name |-> name]
SomeError_To(domException, e) ==
  IF e.right THEN CreateError(e.v) ELSE CreateDOMException(domException, e.v)
RTCError_To(domException, type) ==
  CASE type = "NONE" -> Invalid(<<"No error?">>)
    [] type \in {"UNSUPPORTED_PARAMETER", "INVALID_PARAMETER"} ->
         Valid(CreateDOMException(domException, "InvalidAccessError"))
    [] type = "INVALID_RANGE"                      -> Valid(CreateError("RangeError"))
    [] type = "SYNTAX_ERROR"                       -> Valid(CreateDOMException(domException, "SyntaxError"))
    [] type \in {"INVALID_STATE", "INTERNAL_ERROR"} -> Valid(CreateDOMException(domException, "InvalidStateError"))
    [] type = "INVALID_MODIFICATION" -> Valid(CreateDOMException(domException, "InvalidModificationError"))
    [] type = "NETWORK_ERROR"                      -> Valid(CreateDOMException(domException, "NetworkError"))
    [] OTHER                                       -> Valid(CreateDOMException(domException, "OperationError"))
=============================================================================
