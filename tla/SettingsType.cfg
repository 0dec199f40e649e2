SPECIFICATION SettingsSpec
CONSTANTS
  Tags = {t1}
  Secrets = {s1}
  SecretKeys = {f1, f2}
  Puts = {q1}
  Callers = {}
  MaxPuts = 2
INVARIANTS ChannelSecretKept
CHECK_DEADLOCK FALSE
