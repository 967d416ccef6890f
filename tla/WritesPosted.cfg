SPECIFICATION WritesSpec
CONSTANTS
    Outboxes = {"email.draft", "email.reply", "teams.post_message"}
    Profiles = {"mail", "other"}
    Confidential = {}
    Scopes = {"mail.send"}
    Forbidden = {"Mail.Send"}
    Fold <- MCFold
    HasSignature = TRUE
    HasLogo = TRUE
    Writers = {w1, w2}
    MaxEtags = 5
    MaxAttempts = 2
    Receipts = {1, 2, 3}
    Mailbound = {1, 3}
    Poisoned = {}
    MaxEdits = 2
INVARIANT PostedIntentParses
CHECK_DEADLOCK FALSE
