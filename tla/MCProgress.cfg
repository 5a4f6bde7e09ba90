\* Two stages, one command that writes up to three characters, one fault, two
\* interrupts.
SPECIFICATION FairSpec
CONSTANTS
  Commands <- SomeCommands
  Texts <- SomeTexts
  PipeCap = 1
  StreamLimit = 2
  MaxRecordBytes = 2
  MaxText = 3
  MaxCommands = 1
  MaxFaults = 1
  MaxInterrupts = 2
  Stages = 2
INVARIANTS
  TypeOK
  ResultFaithful
  LogRedacted
  InterruptEndsChild
PROPERTIES
  NoLateWait
  CallsReturn
