SPECIFICATION Spec
CONSTANTS
  Protocols = {"none", "smtp", "ftp", "pop3", "imap"}
  Retries = 2
  Timeout = 3
  MaxLineBytes = 3
  MaxReplyLines = 3
INVARIANTS
  ReplyWithinTimeout
  HandshakeHasTheFullTimeout
  RetriesAreUsedUp
PROPERTY Terminates
