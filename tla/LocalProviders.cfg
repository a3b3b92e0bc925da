SPECIFICATION Spec
CONSTANTS
    t1 = t1  t2 = t2  fido = fido  finger = finger  yk1 = yk1  yk2 = yk2  enp = enp  kp = kp  file = file  plugin = plugin  aws = aws  gcp = gcp  azure = azure  fa = fa  fb = fb  fc = fc  fd = fd  fe = fe  ff = ff
    work = work  home = home  v1 = v1  v2 = v2  v3 = v3  None = None
    ageP = ageP  ageQ = ageQ  safe = safe  tok = tok  tx = tx  ty = ty  tx2 = tx2  tw = tw  Nowhere = Nowhere
    AgeProvider = {ageP, ageQ, safe}
    Age = {ageP, ageQ}
    Text = {tx, tx2, ty, tw}
    KeyOf <- OneKey
    FieldSecret = {tok}
    AgeTask = {t1, t2}
    AgeConfigs <- AllConfigs
    Task = {t1, t2}
    Provider <- Providers
    Configs <- Together
    Kind <- Kinds
    NameOf <- ProviderNames
    VaultOf <- Vaults
    Configured <- NoneConfigured
    Mode <- Modes
    Frame <- Frames
    Field = {fa, fb, fc, fd, fe, ff}
    Databases <- SomeDatabases
    MAX_REF_DEPTH = 2
    MAX_REF_LOOKUPS = 3
    p1 = p1  p2 = p2  p3 = p3  here = here  there = there  tag = tag  Link = Link  Nothing = Nothing
    PluginUser = {p1, p2, p3}
    Url = {here, there}
    Ref = {tag}
    HasEntry <- Entries
    PluginPlans <- Plans
    PluginKills = 1
    Interactive = TRUE
    MaxOps = 3
    MaxChanges = 1
CHECK_DEADLOCK FALSE
INVARIANTS UnlockedOnce ReadsSound RefsSettled PluginSound
PROPERTIES PutBack AllEnd
