SPECIFICATION Spec
CONSTANTS
  Bits <- Widths
  Kinds = {"IceCandidate", "RtpCodecParameters", "DataChannelInit", "RtpCodecCapability",
           "RtpEncodingParameters", "RtpParameters"}
  Casts <- SomeCasts
  MaxMembers = 2
  MaxReports = 0
CHECK_DEADLOCK FALSE
INVARIANTS
  CandidateUnchanged
  SurvivesReading
  IdBelowLimit
  NumbersKept
  WideRefused
