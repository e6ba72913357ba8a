---------------------------- MODULE Dictionaries ----------------------------
(***************************************************************************)
(* The enumerations (src/src/enums) and dictionaries (src/src/dictionaries)*)
(* as tables, with the rules of their own that some of them have, and the  *)
(* way back to JavaScript.  X_List is the list of members of dictionary X, *)
(* X_Fn the function that its members, once converted, are passed to, and  *)
(* X_To what JavaScript is given for a C++ value.                          *)
(*                                                                         *)
(* Text that is taken apart (codec parameters) is a sequence of pieces (cut*)
(* at the semicolons), a piece a sequence of tokens with "=" among them.   *)
(***************************************************************************)
EXTENDS Converters

RTCSdpType          == Enum("RTCSdpType", <<"offer", "answer", "pranswer", "rollback">>, <<>>)
RTCPriorityType     == Enum("RTCPriorityType", <<"very-low", "low", "medium", "high">>, <<>>)
RTCIceCredentialType == Enum("RTCIceCredentialType", <<"password", "oauth">>, <<>>)
RTCDtxStatus        == Enum("RTCDtxStatus", <<"disabled", "enabled">>, <<>>)
IceTransportsType   == Enum("RTCIceTransportPolicy", <<"all", "relay">>, <<"no-host", "none">>)
BundlePolicy        == Enum("RTCBundlePolicy", <<"balanced", "max-compat", "max-bundle">>, <<>>)
RtcpMuxPolicy       == Enum("RTCRtcpMuxPolicy", <<"negotiate", "require">>, <<>>)
SdpSemantics        == Enum("RTCSdpSemantics", <<"plan-b", "unified-plan">>, <<>>)
DegradationPreference == Enum("RTCDegradationPreference",
  <<"maintain-framerate", "maintain-resolution", "balanced">>, <<"disabled">>)
RtpTransceiverDirection == Enum("RTCRtpTransceiverDirection",
  <<"sendrecv", "sendonly", "recvonly", "inactive">>, <<>>)

DataChannelInit_List ==
  << Default(Scalar("bool"), "ordered", TRUE),
     Optional(Unsigned(32), "maxPacketLifeTime"), Optional(Unsigned(32), "maxRetransmits"),
     Default(Scalar("string"), "protocol", ""), Default(Scalar("bool"), "negotiated", FALSE),
     Optional(Unsigned(32), "id"), Default(RTCPriorityType, "priority", "low") >>

DataChannelInit_Fn(a) ==
  IF FromMaybe(a[6], 0) > 2 ^ Bits[16] - 1
  THEN Invalid(<<"id must be between 0 and 65534, inclusive">>)
  ELSE IF IsJust(a[2]) /\ IsJust(a[3]) THEN Invalid(<<"both limits">>)
  ELSE   Valid([ordered |-> a[1], maxRetransmitTime |-> FromMaybe(MaybeMap(a[2], CastInt(a[2][1])), -1),
                maxRetransmits |-> FromMaybe(MaybeMap(a[3], CastInt(a[3][1])), -1), protocol |-> a[4],
                negotiated |-> a[5], id |-> FromMaybe(MaybeMap(a[6], CastInt(a[6][1])), -1)])

\* Candidates.  libwebrtc parses the text of a candidate (external): "bad" is refused.
IceCandidate_List ==
  << Default(Scalar("string"), "candidate", ""), Default(Scalar("string"), "sdpMid", ""),
     Default(Signed(32), "sdpMLineIndex", 0), Optional(Scalar("string"), "usernameFragment") >>
IceCandidate_Fn(a) ==
  IF a[1] = "bad" THEN Invalid(<<"parse">>)
  ELSE Valid([candidate |-> a[1], mid |-> a[2], line |-> a[3], type |-> "host"])
IceCandidate_To(c) ==
  SetAll(<< <<"candidate", Just(Str(c.candidate))>>,
            <<"sdpMid", Just(IF c.mid = "" THEN Null ELSE Str(c.mid))>>,
            <<"sdpMLineIndex", Just(IF c.line < 0 THEN Null ELSE Num(c.line))>>,
            <<"type", Just(Str(c.type))>>,
            <<"tcpType", Just(Null)>>,
            <<"relatedAddress", Just(IF c.type = "host" THEN Null ELSE Str("address"))>> >>)

\* The class RTCIceCandidate of the JavaScript layer: what is missing becomes null.
RTCIceCandidate(init) ==
  Obj([p \in {"candidate", "sdpMid", "sdpMLineIndex", "usernameFragment"} |->
         IF p \in DOMAIN init.v THEN init.v[p] ELSE Null])

RTCOAuthCredential_List == << Required(Scalar("string"), "macKey"), Required(Scalar("string"), "accessToken") >>
IceServer_List ==
  << Required(Alternative(Vector(Scalar("string")), Scalar("string")), "urls"),
     Default(Scalar("string"), "username", ""),
     Default(Alternative(Scalar("string"), Dict("RTCOAuthCredential")), "credential", Left("")),
     Default(RTCIceCredentialType, "credentialType", "password") >>
IceServer_Fn(a) ==
  IF a[3].right \/ a[4] # "password" THEN Invalid(<<"OAuth is not currently supported">>)
  ELSE Valid([urls |-> FromLeft(a[1], <<>>), uri |-> FromRight(a[1], ""),
              username |-> a[2], password |-> FromLeft(a[3], "")])
Unless(text, empty) == IF text = empty THEN Nothing ELSE Just(Str(text))
IceServer_To(s) ==
  SetAll(<< <<"urls", Just(IF s.uri # "" THEN ToVector(<<Str(s.uri)>>)
                           ELSE ToVector([i \in DOMAIN s.urls |-> Str(s.urls[i])]))>>,
            <<"username", Unless(s.username, "")>>, <<"credential", Unless(s.password, "")>>,
            <<"credentialType", Just(Str("password"))>> >>)
\* The server that libwebrtc contacts is the same, whichever field holds its address.
IceServer_Means(s) == [s EXCEPT !.urls = IF s.uri # "" THEN <<s.uri>> ELSE @, !.uri = ""]

UnsignedShortRange_List == << Optional(Unsigned(16), "min"), Optional(Unsigned(16), "max") >>
UnsignedShortRange_Fn(a) ==
  IF FromMaybe(a[1], 0) > FromMaybe(a[2], 2 ^ Bits[16] - 1) THEN Invalid(<<"min above max">>)
  ELSE Valid([min |-> a[1], max |-> a[2]])
UnsignedShortRange_To(r) ==
  SetAll(<< <<"min", MaybeMap(r.min, Num(r.min[1]))>>, <<"max", MaybeMap(r.max, Num(r.max[1]))>> >>)

\* ExtendedRTCConfiguration: an RTCConfiguration and a range of ports, read from one
\* object.  The identity and the certificates are converted and dropped.
RTCConfiguration_List ==
  << Default(Vector(Dict("IceServer")), "iceServers", <<>>),
     Default(IceTransportsType, "iceTransportPolicy", "all"),
     Default(BundlePolicy, "bundlePolicy", "balanced"),
     Default(RtcpMuxPolicy, "rtcpMuxPolicy", "require"),
     Optional(Scalar("string"), "peerIdentity"),
     Optional(Vector(Scalar("object")), "certificates"),
     Default(Unsigned(8), "iceCandidatePoolSize", 0),
     Default(SdpSemantics, "sdpSemantics", "unified-plan") >>
RTCConfiguration_Fn(a) ==
  Valid([servers |-> a[1], type |-> a[2], bundle_policy |-> a[3], rtcp_mux_policy |-> a[4],
         ice_candidate_pool_size |-> a[7], sdp_semantics |-> a[8]])
UnboundedRange == [min |-> Nothing, max |-> Nothing]
ExtendedRTCConfiguration(v, configuration, range) ==
  LET bound == Curried(<< configuration, GetDefault(v, "portRange", range, UnboundedRange) >>)
  IN  FlatMap(FromObject(v),
        MapV(bound, [configuration |-> bound.value[1], portRange |-> bound.value[2]]))
ExtendedRTCConfiguration_To(c) ==
  SetAll(<< <<"iceServers", Just(ToVector([i \in DOMAIN c.configuration.servers |->
                                             IceServer_To(c.configuration.servers[i])]))>>,
            <<"iceTransportPolicy", Just(Str(c.configuration.type))>>,
            <<"bundlePolicy", Just(Str(c.configuration.bundle_policy))>>,
            <<"rtcpMuxPolicy", Just(Str(c.configuration.rtcp_mux_policy))>>,
            <<"iceCandidatePoolSize", Just(Num(c.configuration.ice_candidate_pool_size))>>,
            <<"portRange", Just(UnsignedShortRange_To(c.portRange))>>,
            <<"sdpSemantics", Just(Str(c.configuration.sdp_semantics))>> >>)

\* The constructor of RTCPeerConnection and setConfiguration refuse some addresses more.
validateConfiguration(c) ==
  \A i \in DOMAIN c.servers :
    /\ c.servers[i].uri = "undefined" => c.servers[i].urls # <<>>
    /\ \A k \in DOMAIN c.servers[i].urls : c.servers[i].urls[k] \notin {"undefined", ""}

\* Descriptions.  libwebrtc parses the SDP (external): "bad" is refused.
RTCSessionDescriptionInit_List == << Required(RTCSdpType, "type"), Default(Scalar("string"), "sdp", "") >>
SessionDescription_Fn(a) ==
  IF a[2] = "bad" THEN Invalid(<<"parse">>) ELSE Valid([type |-> a[1], sdp |-> a[2]])
SessionDescription_To(d) == SetAll(<< <<"type", Just(Str(d.type))>>, <<"sdp", Just(Str(d.sdp))>> >>)

RTCOfferOptions_List ==
  << Default(Scalar("bool"), "voiceActivityDetection", TRUE), Default(Scalar("bool"), "iceRestart", FALSE),
     Optional(Scalar("bool"), "offerToReceiveAudio"), Optional(Scalar("bool"), "offerToReceiveVideo") >>
Receive(m) == FromMaybe(MaybeMap(m, IF m[1] THEN 1 ELSE 0), -1)
RTCOfferOptions_Fn(a) ==
  Valid([voice_activity_detection |-> a[1], ice_restart |-> a[2],
         offer_to_receive_audio |-> Receive(a[3]), offer_to_receive_video |-> Receive(a[4])])
RTCAnswerOptions_List == << Default(Scalar("bool"), "voiceActivityDetection", TRUE) >>
=============================================================================
