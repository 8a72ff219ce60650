\* kernel_main ends in an endless hlt.
CHECK_DEADLOCK FALSE
CONSTANTS
    fb_width = 9
    fb_height = 8
    TASKBAR = 4
    BUTTON_X = 1
    BUTTON_UP = 3
    BUTTON_W = 5
    BUTTON_H = 2
    WORD = 256
SPECIFICATION Spec
INVARIANTS TypeOK StoresInFramebuffer HaltsOnDesktop
PROPERTIES DesktopAppears
