CONSTANTS
    Users = {"u"}
    Workers = {w1, w2}
    Operations = {"login", "register", "resend_verification", "verify_email", "request_magic_link", "open_device_sign_in", "verify_magic_link", "request_otp", "forgot_password", "verify_otp", "poll_device_sign_in", "complete_two_factor", "begin_two_factor_setup", "enable_two_factor", "disable_two_factor", "regenerate_recovery_codes", "refresh", "reset_password", "change_password", "logout_all", "logout", "revoke_session"}
    Passwords = {"p", "q", "weak"}
    WeakPasswords = {"weak"}
    TotpCodes = {1}
    RecoveryCodes = 1
    MaxLoginAttempts = 2
    MaxOtpAttempts = 2
    AccessTTL = 1
    EpochTTL = 9
    LastTick = 1
    MaxRequests = 5
    MaxSessions = 3
SPECIFICATION Spec
INVARIANTS OneSessionPerSignIn EarlierSessionsDie SecondFactorHolds GuessesBounded
CHECK_DEADLOCK FALSE
