\* Two jobs, two commits, three invocations at the shell.
CONSTANTS
  Jobs = {"first", "second"}
  Owners = {"first", "second", "shell"}
  Versions = {"A", "B"}
  Limit = 3
  Calls <- ShellCalls
SPECIFICATION Spec
INVARIANTS TypeOK ReportLast MixtureNoticed PublishedIsClosed OneRelease PublishedCommitTagged
PROPERTIES SuccessIsFinal
