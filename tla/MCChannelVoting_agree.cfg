SPECIFICATION VotingSpec
CONSTANTS
  ChannelCount = 4
  MaxChannels = 8
  MinHealthyMid = 3
  MinHealthyCon = 2
  Tolerance = 1
  Monitor = 1
  Truths <- MCTruths
  Drift = 1
  Noise = 0
  Wild <- MCWild
  MaxFaults = 2
INVARIANTS
  AgreementIsNearEveryReport
  MidValueMasksOneFault
