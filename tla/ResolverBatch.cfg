SPECIFICATION FairSpec
CONSTANTS
    a = a  b = b  c = c  vault = vault  op = op  prompt = prompt  gone = gone  None = None
    Key = {a, b, c}
    Provider = {vault, op, prompt, gone}
    Configured = {vault, op, prompt}
    Interactive = {prompt}
    env_dependencies <- Needs
    DefaultProvider = op
    Ambient = {c}
    Configs <- Everything
    Pre <- KnownA
CHECK_DEADLOCK FALSE
INVARIANTS BatchSound DependenciesFirst
PROPERTIES Ends
