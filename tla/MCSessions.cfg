\* Two administrators and a script, accounts and tokens that come and go.
SPECIFICATION AccessSpec
CONSTANTS
    Names = {ann, bob}
    Passwords = {p1}
    TokenNames = {t1}
    Browsers = {b1, b2}
    Scripts = {ci}
    NoName = none
    MaxAccounts = 2
    MaxSessions = 2
    MaxTokens = 1
INVARIANT ButtonsWork
PROPERTY RemovedMembersAreOut
