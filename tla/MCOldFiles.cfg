SPECIFICATION WorkspaceSpec
CONSTANTS
    None = None
    Tasks = {t1, t2}
    MaxEvents = 4
    Categories = {k1, k2}
    Streams = {ch1}
    Directs = {ch2}
    Files = {f1, f2}
    Uploads = {u1}
    Emojis = {e1, e2}
    Names = {n1}
    Messages = {m1}
    UploadSize = 2
    Devices = {d1}
    ApnsTokens = {a1}
    FcmTokens = {g1, g2}
    Checklists = {l1, l2}
    PlaybookTasks = {i1, i2}
    Runs = {r1, r2}
    People = {p1, p2}
    InHooks = {h1}
    OutHooks = {o1, o2}
    Urls = {url1, url2}
    RefusedUrls = {url2}
    MaxUrls = 2
    Authors = {w1}
    Bots = {b1}
    BotTokens = {bt1}
    HookPosts = {q1}
    CommandCalls = {c1, c2}
    Texts = {x1}
    BaseSettings = {bs1}
    MoreSettings = {ms1}
    MaxClock = 1
    MediaSessions = {s1}
    Candidates = {ic1}
    TrackIds = {tr1}
    Providers = {pr1, pr2}
    Families = {fam1}
    Versions = {v1, v2}
    Locales = {"en", "de"}
    TermsIds = {tos1, tos2}
    TermsUsers = {tu1}
    TermsDates = {1, 2}
    BookmarkIds = {bm1}
    Limit = 1
    Window = 2
    MaxSeconds = 4
    Day = 24
    Unset = Unset
    NotHeld = NotHeld
CHECK_DEADLOCK FALSE
INVARIANT OldFilesAreRemoved
