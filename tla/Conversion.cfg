\* A program that has passed its object on may stop.
SPECIFICATION Spec
CONSTANTS
  Bits <- Widths
  Kinds = {"DataChannelInit", "ExtendedRTCConfiguration", "SessionDescription", "IceCandidate",
           "IceServer", "UnsignedShortRange", "RTCOfferOptions", "RtpCodecCapability",
           "RtpCodecParameters", "RtpEncodingParameters", "RtpHeaderExtensionParameters",
           "RtcpParameters", "RtpParameters", "RtpTransceiverInit", "RTCOnDataEvent",
           "I420ImageData", "RgbaImageData", "RgbaToI420", "LegacyStats", "RTCError"}
  Casts <- SomeCasts
  MaxMembers = 2
  MaxReports = 2
CHECK_DEADLOCK FALSE
INVARIANTS
  TakenIn
  AllErrorsReported
  GivenBack
