SPECIFICATION WizardSpec
CONSTANTS
    Storages = {"redis"}
    Taps = {h1, h2}
    MaxNonce = 1
    MaxDrafts = 2
INVARIANT OneDraftPerWizard
