SPECIFICATION Spec
CONSTANTS
    login = login
    home = home
    extra = extra
    app = app
    item = item
    p1 = p1
    p2 = p2
    p3 = p3
    None = None
    Procs = {p1, p2, p3}
    Names = {login}
    Dirs = {home, extra}
    Home = home
    Apps = {app}
    Odd = {}
    Blank = {}
    Env = None
    Items = {item}
    Login = login
    Offered <- MCOffered
    Searchable = {extra}
    Found <- MCFound
    Typed <- MCTyped
    AtOnce = 2
INVARIANTS KcInv PolicyStays SecretsGated AuditHolds
SYMMETRY Symmetry
CHECK_DEADLOCK FALSE
