\* A reader's comment is held, and the owner approves it from the mail.
SPECIFICATION Spec
CONSTANTS
    Comments = {c1}
    Addresses = {owner, ann}
    Owner = owner
    Workers = {w1}
    NoComment = none
    MaxRequests = 1
PROPERTIES
    ApprovingTellsThread
CHECK_DEADLOCK FALSE
