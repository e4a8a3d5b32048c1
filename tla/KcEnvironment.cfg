SPECIFICATION Spec
CONSTANTS
    login = login
    home = home
    extra = extra
    app = app
    item = item
    p1 = p1
    p2 = p2
    p3 = p3
    None = None
    Procs = {p1}
    Names = {login}
    Dirs = {home, extra}
    Home = home
    Apps = {app}
    Odd = {}
    Blank = {}
    Env <- MCEnv
    Items = {item}
    Login = login
    Offered <- MCOffered
    Searchable = {extra}
    Found <- MCFound
    Typed <- MCTyped
    AtOnce = 1
INVARIANTS SetPolicyGoverns
CHECK_DEADLOCK FALSE
