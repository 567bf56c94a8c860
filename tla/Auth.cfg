\* Two names, which up to two logins may register or upgrade at the same time.
CONSTANTS
    Names = {ann, bob}
    Passwords = {p, q}
    SessionTokens = {s, t}
    Attempts = {c, d}
    None = None
SPECIFICATION AuthFairSpec
INVARIANTS AnswersMatchAccount
PROPERTIES LoginsAnswered
