SPECIFICATION Spec
CONSTANTS
    Passwords = ".htpasswd"
    HidePattern = {"h.key", "index.key"}
    CgiExtensions = {"x.cgi"}
    SsiExtensions = {"p.shtml", "q.shtml"}
    IndexFiles <- MCIndexFiles
    MaxInclude = 3
    Scripts <- MCScripts
    Configs <- MCConfigs
    Files0 <- MCFiles
    BufSize = 5
    PwFile <- MCPwFile
    TmpFile <- MCTmpFile
    Editor <- MCEditor
 
PROPERTY FilesGuarded
PROPERTY AllServed
CHECK_DEADLOCK FALSE
