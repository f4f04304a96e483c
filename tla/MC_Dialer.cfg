\* dialWithRetry under budgets from "forever" to three retries.
CONSTANTS
    RedialChoices <- MCRedialChoices
    MaxAttempts = 5
SPECIFICATION Spec
INVARIANT TypeOK RetryBudget

CHECK_DEADLOCK FALSE
